---- MODULE Spec2Model ----
(***************************************************************************)
(* Model of k8s-gsidecar: the sidecar that mirrors the .json entries of    *)
(* labelled ConfigMaps and Secrets onto the local filesystem and pings an  *)
(* HTTP endpoint.                                                          *)
(*                                                                         *)
(* Representation.  A Go map is a set of <<key, value>> pairs with unique  *)
(* keys.  A file name is the sequence of its characters, so that the       *)
(* suffix test of IsJSON is computed.  A folder is the sequence of its     *)
(* path segments and an annotation value is the sequence of the segments   *)
(* it names ("" is <<>>, "sub" is <<"sub">>), so that path.Join is         *)
(* computed.  A content is a sequence of bytes.                            *)
(***************************************************************************)
EXTENDS Integers, Sequences, FiniteSets, TLC

VARIABLES
    cfg,          \* the SideCar struct built by New (immutable)
    cluster,      \* the API server's objects: map rid -> object
    changes,      \* number of cluster mutations so far
    pc,           \* position of the main goroutine in Run
    ctxDone,      \* the shared context is cancelled
    wg,           \* Client.Wg counter
    worker,       \* per kind: position of ConfigMapInformerWorker / SecretInformerWorker
    informer,     \* per <<kind, scope index>>: the shared informer and its pending events
    fs,           \* the filesystem: [files: map <<folder, name>> -> content, dirs: set of folders]
    notifyCount,  \* number of calls of notifier.Notify
    addsMatched,  \* number of Add events handled whose object matched the selector
    writeFailed,  \* some writer.Write has returned an error
    removeFailed, \* some writer.Remove has returned an error
    touched,      \* the pairs <<path, rid>>: Write or Remove was called at path for resource rid
    last          \* the last operation of the sidecar and the calls it made

vars == <<cfg, cluster, changes, pc, ctxDone, wg, worker, informer, fs,
          notifyCount, addsMatched, writeFailed, removeFailed, touched, last>>

-----------------------------------------------------------------------------
(* Bounds *)

MaxChanges == 2

MaxAnswers == 2

-----------------------------------------------------------------------------
(* Go maps as sets of pairs *)

Keys(m) == {p[1] : p \in m}

Has(m, k) == \E p \in m : p[1] = k

Get(m, k) == (CHOOSE p \in m : p[1] = k)[2]

Put(m, k, v) == {p \in m : p[1] # k} \cup {<<k, v>>}

Del(m, k) == {p \in m : p[1] # k}

Perms(S) == {s \in [1..Cardinality(S) -> S] : \A i, j \in 1..Cardinality(S) : s[i] = s[j] => i = j}

-----------------------------------------------------------------------------
(* Program constants *)

METHOD_WATCH == "watch"
METHOD_LIST == "list"
METHOD_SLEEP == "sleep"

RESOURCE_CONFIGMAP == "configmap"
RESOURCE_SECRET == "secret"

DEFAULT_FOLDER_ANNOTATION == "k8s-sidecar-target-directory"

JSON_SUFFIX == <<".", "j", "s", "o", "n">>

URL_OK == "http://grafana:3000/reload"
\* url.Parse of the empty string succeeds; the client then finds no scheme
URL_EMPTY == ""
\* url.Parse fails: missing protocol scheme
URL_BAD == "://grafana"

-----------------------------------------------------------------------------
(* The universe of the model *)

Kinds == {RESOURCE_CONFIGMAP, RESOURCE_SECRET}

Namespaces == {"ns1", "ns2"}

Rids == {<<k, ns, "x">> : k \in Kinds, ns \in Namespaces}

A_JSON == <<"a">> \o JSON_SUFFIX
B_JSON == <<"b">> \o JSON_SUFFIX
C_YAML == <<"c", ".", "y", "a", "m", "l">>

ONE == <<49>>
TWO == <<50>>

Matching == {<<"app", "myapp">>}

Object(labels, annotations, data) ==
    [labels |-> labels, annotations |-> annotations, data |-> data]

Objects ==
    { Object(Matching, {}, {<<A_JSON, ONE>>, <<C_YAML, ONE>>}),
      Object(Matching, {}, {<<A_JSON, TWO>>, <<B_JSON, ONE>>}),
      Object(Matching, {<<DEFAULT_FOLDER_ANNOTATION, <<"sub">>>>}, {<<A_JSON, ONE>>}),
      Object({<<"app", "other">>}, {}, {<<A_JSON, ONE>>}),
      Object({<<"team", "myapp">>}, {}, {<<B_JSON, ONE>>}) }

Config(method, namespaces, label, labelValue, folderAnnotation, resource) ==
    [Method |-> method, Namespaces |-> namespaces, Label |-> label,
     LabelValue |-> labelValue, Folder |-> <<"base">>,
     FolderAnnotation |-> folderAnnotation, Resource |-> resource, ReqURL |-> URL_OK]

\* the same configuration with REQ_URL unset
WithoutReqURL(c) == [c EXCEPT !.ReqURL = URL_EMPTY]

BOTH == <<RESOURCE_CONFIGMAP, RESOURCE_SECRET>>

\* a value of METHOD that is none of the three run modes
METHOD_OTHER == "once"

\* The configurations: New leaves Resource empty when RESOURCE is none of
\* both, configmap and secret.

Configs ==
    { Config(METHOD_WATCH, <<"ns1">>, "app", "myapp", DEFAULT_FOLDER_ANNOTATION, <<RESOURCE_CONFIGMAP>>),
      Config(METHOD_WATCH, <<"ns1", "ns2">>, "app", "myapp", DEFAULT_FOLDER_ANNOTATION, <<RESOURCE_CONFIGMAP>>),
      Config(METHOD_WATCH, <<>>, "app", "", DEFAULT_FOLDER_ANNOTATION, <<RESOURCE_SECRET>>),
      Config(METHOD_LIST, <<"ns1", "ns2">>, "app", "myapp", DEFAULT_FOLDER_ANNOTATION, BOTH),
      Config(METHOD_LIST, <<>>, "app", "", "", <<RESOURCE_CONFIGMAP>>),
      Config(METHOD_SLEEP, <<"ns1">>, "app", "myapp", DEFAULT_FOLDER_ANNOTATION, <<RESOURCE_CONFIGMAP>>),
      Config(METHOD_WATCH, <<"ns1">>, "app", "myapp", DEFAULT_FOLDER_ANNOTATION, <<>>),
      Config(METHOD_SLEEP, <<"ns1">>, "app", "myapp", DEFAULT_FOLDER_ANNOTATION, <<>>),
      Config(METHOD_OTHER, <<"ns1">>, "app", "myapp", DEFAULT_FOLDER_ANNOTATION, <<RESOURCE_CONFIGMAP>>),
      WithoutReqURL(Config(METHOD_WATCH, <<"ns1">>, "app", "myapp", DEFAULT_FOLDER_ANNOTATION, <<RESOURCE_CONFIGMAP>>)),
      WithoutReqURL(Config(METHOD_LIST, <<>>, "app", "", "", <<RESOURCE_CONFIGMAP>>)) }

\* The configurations with workers for both kinds in one namespace
ConfigsBoth ==
    { Config(METHOD_WATCH, <<"ns1">>, "app", "myapp", DEFAULT_FOLDER_ANNOTATION, BOTH),
      Config(METHOD_LIST, <<>>, "app", "", "", <<RESOURCE_CONFIGMAP>>),
      Config(METHOD_OTHER, <<"ns1">>, "app", "myapp", DEFAULT_FOLDER_ANNOTATION, <<RESOURCE_CONFIGMAP>>) }

-----------------------------------------------------------------------------
(* writer.FileWriter *)

HasSuffix(s, suffix) ==
    /\ Len(s) >= Len(suffix)
    /\ SubSeq(s, Len(s) - Len(suffix) + 1, Len(s)) = suffix

\* A faulty filter, for comparison: the dot of the suffix is not required
IsJSON_NoDot(fileName) == HasSuffix(fileName, <<"j", "s", "o", "n">>)

\* A faulty filter, for comparison: every name passes
IsJSON_Always(fileName) == TRUE

IsJSON(fileName) == HasSuffix(fileName, JSON_SUFFIX)

Parent(folder) == SubSeq(folder, 1, Len(folder) - 1)

\* os.Stat reports the folder missing -> os.Mkdir, which creates one level
\* only and whose error is dropped.
WriterInit(f, folder) ==
    IF folder \notin f.dirs /\ folder # <<>> /\ Parent(folder) \in f.dirs
    THEN [f EXCEPT !.dirs = @ \cup {folder}]
    ELSE f

\* fault: the operating system refuses the write (full disk, permissions)
Write(f, folder, fileName, data, fault) ==
    LET f1 == WriterInit(f, folder)
        ok == folder \in f1.dirs /\ ~fault
    IN  [fs  |-> IF ok THEN [f1 EXCEPT !.files = Put(@, <<folder, fileName>>, data)] ELSE f1,
         err |-> ~ok]

\* A faulty Remove, for comparison: it reports success and leaves the file
Remove_KeepsFile(f, folder, fileName, fault) ==
    [fs |-> WriterInit(f, folder), err |-> fault]

\* A Remove without side effect, for comparison: the folder is not created
Remove_NoInit(f, folder, fileName, fault) ==
    LET ok == Has(f.files, <<folder, fileName>>) /\ ~fault
    IN  [fs  |-> IF ok THEN [f EXCEPT !.files = Del(@, <<folder, fileName>>)] ELSE f,
         err |-> ~ok]

Remove(f, folder, fileName, fault) ==
    LET f1 == WriterInit(f, folder)
        ok == Has(f1.files, <<folder, fileName>>) /\ ~fault
    IN  [fs  |-> IF ok THEN [f1 EXCEPT !.files = Del(@, <<folder, fileName>>)] ELSE f1,
         err |-> ~ok]

-----------------------------------------------------------------------------
(* notifier.HTTPNotifier.  A *BasicAuth is <<>> (nil) or <<b>>.  A URL is    *)
(* one of three strings.  The endpoint is the sequence of its answers to the *)
(* requests it receives, each [status, location]; a request with no answer   *)
(* left is a failure of the transport (refused connection, timeout).         *)

Answer(status, location) == [status |-> status, location |-> location]

MethodGet == "GET"
MethodPost == "POST"

URLParses(url) == url # URL_BAD

HasScheme(url) == url \notin {URL_EMPTY, URL_BAD}

BasicAuth(username, password) == [Username |-> username, Password |-> password]

NewHTTPNotifier(URL, Method, basicAuth, Payload) ==
    [URL |-> URL, Method |-> Method, BasicAuth |-> basicAuth, Payload |-> Payload]

\* The notifier New builds from the environment; an unset variable reads as
\* the empty string.
NewNotifier(env) ==
    NewHTTPNotifier(env.REQ_URL, env.REQ_METHOD,
                    <<BasicAuth(env.REQ_USERNAME, env.REQ_PASSWORD)>>, env.REQ_PAYLOAD)

\* the header "Authorization: Basic " base64(username ":" password)
SetBasicAuth(req, username, password) ==
    [req EXCEPT !.Authorization = <<"Basic", username, ":", password>>]

\* http.Client with a nil CheckRedirect follows redirects and stops after 10
\* consecutive requests
RedirectLimit == 10

Redirects(answer) == answer.status \in {301, 302, 303, 307, 308} /\ answer.location

\* The request that follows a redirect, to the same host: 301, 302 and 303
\* turn a POST into a GET without body, 307 and 308 repeat the request.
RedirectRequest(req, status) ==
    IF status \in {301, 302, 303} /\ req.Method # MethodGet
    THEN [req EXCEPT !.Method = MethodGet, !.Body = ""]
    ELSE req

\* client.Do: the requests sent, and the final response or an error
RECURSIVE Do(_, _, _)
Do(req, answers, sent) ==
    IF ~HasScheme(req.URL)
    THEN [sent |-> sent, err |-> TRUE, status |-> 0]
    ELSE IF answers = <<>>
    THEN [sent |-> Append(sent, req), err |-> TRUE, status |-> 0]
    ELSE IF Redirects(Head(answers))
    THEN IF Len(sent) + 1 >= RedirectLimit
         THEN [sent |-> Append(sent, req), err |-> TRUE, status |-> Head(answers).status]
         ELSE Do(RedirectRequest(req, Head(answers).status), Tail(answers), Append(sent, req))
    ELSE [sent |-> Append(sent, req), err |-> FALSE, status |-> Head(answers).status]

\* A faulty choice of the method, for comparison: post in any case is POST
HTTPMethodName_AnyCase(method) ==
    IF method \in {"POST", "post", "Post"} THEN MethodPost ELSE MethodGet

\* httpMethodName of Notify
HTTPMethodName(method) == IF method = MethodPost THEN MethodPost ELSE MethodGet

\* A faulty status test, for comparison: 300 passes
StatusFails_Through300(status) == status < 200 \/ status > 300

\* resp.StatusCode < 200 || resp.StatusCode >= 300
StatusFails(status) == status < 200 \/ status >= 300

\* HTTPNotifier.Notify: the requests sent and whether an error is returned
Notify(n, answers) ==
    LET httpMethodName == HTTPMethodName(n.Method)
        req0 == [Method |-> httpMethodName, URL |-> n.URL, Body |-> n.Payload,
                 Authorization |-> <<>>]
        req == IF n.BasicAuth # <<>>
               THEN SetBasicAuth(req0, n.BasicAuth[1].Username, n.BasicAuth[1].Password)
               ELSE req0
        resp == Do(req, answers, <<>>)
    IN  IF ~URLParses(n.URL) THEN [sent |-> <<>>, err |-> TRUE]
        ELSE IF resp.err THEN [sent |-> resp.sent, err |-> TRUE]
        ELSE IF StatusFails(resp.status) THEN [sent |-> resp.sent, err |-> TRUE]
        ELSE [sent |-> resp.sent, err |-> FALSE]

-----------------------------------------------------------------------------
(* path.Join and the target folder *)

CleanStep(acc, seg) ==
    IF seg = "" \/ seg = "." THEN acc
    ELSE IF seg = ".." /\ Len(acc) > 0 /\ acc[Len(acc)] # ".."
         THEN SubSeq(acc, 1, Len(acc) - 1)
         ELSE Append(acc, seg)

RECURSIVE CleanFrom(_, _)
CleanFrom(acc, rest) ==
    IF rest = <<>> THEN acc ELSE CleanFrom(CleanStep(acc, Head(rest)), Tail(rest))

\* A hardened join, for comparison: parent-directory segments of b are dropped
Join_Sanitized(a, b) == CleanFrom(<<>>, a \o SelectSeq(b, LAMBDA seg : seg # ".."))

Join(a, b) == CleanFrom(<<>>, a \o b)

\* a missing key of a Go map reads as the empty string
AnnotationValue(annotations, key) ==
    IF Has(annotations, key) THEN Get(annotations, key) ELSE <<>>

\* A faulty resolution, for comparison: the annotation is not looked at
ResolveFolder_BaseOnly(folder, folderAnnotation, annotations) == folder

ResolveFolder(folder, folderAnnotation, annotations) ==
    IF folderAnnotation # ""
    THEN Join(folder, AnnotationValue(annotations, folderAnnotation))
    ELSE folder

-----------------------------------------------------------------------------
(* kubernetes.Client *)

\* A faulty matcher, for comparison: the value may be that of another label
matchesLabel_LooseValue(resourceLabels, expectedLabel, expectedLabelValue) ==
    IF expectedLabel = "" THEN TRUE
    ELSE /\ \E p \in resourceLabels : p[1] = expectedLabel
         /\ expectedLabelValue = "" \/ \E q \in resourceLabels : q[2] = expectedLabelValue

\* A faulty matcher, for comparison: the label value is not compared
matchesLabel_KeyOnly(resourceLabels, expectedLabel, expectedLabelValue) ==
    IF expectedLabel = "" THEN TRUE
    ELSE \E p \in resourceLabels : p[1] = expectedLabel

matchesLabel(resourceLabels, expectedLabel, expectedLabelValue) ==
    IF expectedLabel = "" THEN TRUE
    ELSE \E p \in resourceLabels :
            \/ expectedLabelValue = "" /\ p[1] = expectedLabel
            \/ p[1] = expectedLabel /\ p[2] = expectedLabelValue

\* fmt.Sprintf("%s=%s", label, labelValue), or the bare label key
LabelSelector(label, labelValue) ==
    IF labelValue # "" THEN <<label, "=", labelValue>> ELSE <<label>>

\* The API server's evaluation of ListOptions.LabelSelector: the empty
\* selector selects everything, "k" the objects carrying k, "k=v" the objects
\* whose label k is v.
Selects(selector, labels) ==
    IF selector = <<"">> THEN TRUE
    ELSE IF Len(selector) = 1 THEN Has(labels, selector[1])
    ELSE <<selector[1], selector[3]>> \in labels

NamespaceAll == ""

\* The objects one List call of a kind in a namespace selects
Listed(cl, kind, namespace, selector) ==
    {p \in cl : /\ p[1][1] = kind
                /\ (namespace = NamespaceAll \/ p[1][2] = namespace)
                /\ Selects(selector, p[2].labels)}

\* The sequences a series of List calls, one per namespace, can concatenate
\* to; the order of the items of one call is left open by the API.
RECURSIVE ListEach(_, _, _, _)
ListEach(cl, kind, namespaces, selector) ==
    IF namespaces = <<>> THEN {<<>>}
    ELSE {h \o t : h \in Perms(Listed(cl, kind, Head(namespaces), selector)),
                   t \in ListEach(cl, kind, Tail(namespaces), selector)}

\* The possible returns of GetConfigMaps / GetSecrets: the items of all the
\* calls, or an error as soon as one call fails.
GetResources(cl, kind, namespaces, label, labelValue) ==
    LET selector == LabelSelector(label, labelValue)
        all == IF Len(namespaces) = 0
               THEN Perms(Listed(cl, kind, NamespaceAll, selector))
               ELSE ListEach(cl, kind, namespaces, selector)
    IN  {[items |-> s, err |-> FALSE] : s \in all} \cup {[items |-> <<>>, err |-> TRUE]}

GetConfigMaps(cl, namespaces, label, labelValue) ==
    GetResources(cl, RESOURCE_CONFIGMAP, namespaces, label, labelValue)

GetSecrets(cl, namespaces, label, labelValue) ==
    GetResources(cl, RESOURCE_SECRET, namespaces, label, labelValue)

-----------------------------------------------------------------------------
(* The calls an operation makes, in order *)

NoRid == <<"", "", "">>
NoObject == Object({}, {}, {})

Call(op, rid, folder, fileName, data, err) ==
    [op |-> op, rid |-> rid, folder |-> folder, fileName |-> fileName,
     data |-> data, err |-> err]

\* The notifier of a sidecar built by New with REQ_URL as configured and the
\* other variables of the request unset
NotifierOf(c) ==
    NewNotifier([REQ_URL |-> c.ReqURL, REQ_METHOD |-> "", REQ_USERNAME |-> "",
                 REQ_PASSWORD |-> "", REQ_PAYLOAD |-> ""])

\* the endpoint at URL_OK answers every request with 200
Endpoint == <<Answer(200, FALSE)>>

\* One call of s.notifier.Notify(); the result is dropped by every caller
NotifyCall(c) == Call("Notify", NoRid, <<>>, <<>>, <<>>, Notify(NotifierOf(c), Endpoint).err)

\* string(data) of a Secret's []byte: the same bytes
StringOf(data) == [i \in 1..Len(data) |-> data[i]]

\* The entry names of an object in the order a ranking of all names gives;
\* Go leaves the iteration order of a map open.
EntryOrder(obj, rank) == SelectSeq(rank, LAMBDA n : Has(obj.data, n))

TargetKeys(obj, c) ==
    {<<ResolveFolder(c.Folder, c.FolderAnnotation, obj.annotations), n>> : n \in Keys(obj.data)}

-----------------------------------------------------------------------------
(* The event handlers of configMapInformerWorker and secretInformerWorker.  *)
(* st is [fs, calls]; names is the iteration order over the data map; bad   *)
(* is the set of paths at which the operating system fails during this      *)
(* handler.                                                                 *)

\* A faulty loop, for comparison: it ends at the first Write that fails
RECURSIVE WriteEntries_StopOnError(_, _, _, _, _, _)
WriteEntries_StopOnError(st, rid, obj, names, bad, c) ==
    IF names = <<>> \/ (st.calls # <<>> /\ st.calls[Len(st.calls)].err) THEN st
    ELSE LET fileName == Head(names)
             data == StringOf(Get(obj.data, fileName))
             folder == ResolveFolder(c.Folder, c.FolderAnnotation, obj.annotations)
             r == Write(st.fs, folder, fileName, data, <<folder, fileName>> \in bad)
         IN  IF ~IsJSON(fileName)
             THEN WriteEntries_StopOnError(st, rid, obj, Tail(names), bad, c)
             ELSE WriteEntries_StopOnError(
                      [fs |-> r.fs,
                       calls |-> Append(st.calls, Call("Write", rid, folder, fileName, data, r.err))],
                      rid, obj, Tail(names), bad, c)

RECURSIVE WriteEntries(_, _, _, _, _, _)
WriteEntries(st, rid, obj, names, bad, c) ==
    IF names = <<>> THEN st
    ELSE LET fileName == Head(names)
             data == StringOf(Get(obj.data, fileName))
             folder == ResolveFolder(c.Folder, c.FolderAnnotation, obj.annotations)
             r == Write(st.fs, folder, fileName, data, <<folder, fileName>> \in bad)
         IN  IF ~IsJSON(fileName)
             THEN WriteEntries(st, rid, obj, Tail(names), bad, c)
             ELSE WriteEntries([fs |-> r.fs,
                                calls |-> Append(st.calls, Call("Write", rid, folder, fileName, data, r.err))],
                               rid, obj, Tail(names), bad, c)

RECURSIVE RemoveEntries(_, _, _, _, _, _)
RemoveEntries(st, rid, obj, names, bad, c) ==
    IF names = <<>> THEN st
    ELSE LET fileName == Head(names)
             folder == ResolveFolder(c.Folder, c.FolderAnnotation, obj.annotations)
             r == Remove(st.fs, folder, fileName, <<folder, fileName>> \in bad)
         IN  IF ~IsJSON(fileName)
             THEN RemoveEntries(st, rid, obj, Tail(names), bad, c)
             ELSE RemoveEntries([fs |-> r.fs,
                                 calls |-> Append(st.calls, Call("Remove", rid, folder, fileName, <<>>, r.err))],
                                rid, obj, Tail(names), bad, c)

\* A faulty Add handler, for comparison: no notification
AddFunc_NoNotify(f, rid, obj, names, bad, c) ==
    IF ~matchesLabel(obj.labels, c.Label, c.LabelValue)
    THEN [fs |-> f, calls |-> <<>>]
    ELSE WriteEntries([fs |-> f, calls |-> <<>>], rid, obj, names, bad, c)

\* A faulty Add handler, for comparison: Notify only after a Write
AddFunc_NotifyIfWritten(f, rid, obj, names, bad, c) ==
    IF ~matchesLabel(obj.labels, c.Label, c.LabelValue)
    THEN [fs |-> f, calls |-> <<>>]
    ELSE LET st == WriteEntries([fs |-> f, calls |-> <<>>], rid, obj, names, bad, c)
         IN  IF st.calls = <<>> THEN st
             ELSE [fs |-> st.fs, calls |-> Append(st.calls, NotifyCall(c))]

AddFunc(f, rid, obj, names, bad, c) ==
    IF ~matchesLabel(obj.labels, c.Label, c.LabelValue)
    THEN [fs |-> f, calls |-> <<>>]
    ELSE LET st == WriteEntries([fs |-> f, calls |-> <<>>], rid, obj, names, bad, c)
         IN  [fs |-> st.fs, calls |-> Append(st.calls, NotifyCall(c))]

\* A faulty Update handler, for comparison: it writes nothing
UpdateFunc_Skips(f, rid, obj, names, bad, c) == [fs |-> f, calls |-> <<>>]

\* A faulty Update handler, for comparison: it notifies like the Add handler
UpdateFunc_Notifies(f, rid, obj, names, bad, c) ==
    IF ~matchesLabel(obj.labels, c.Label, c.LabelValue)
    THEN [fs |-> f, calls |-> <<>>]
    ELSE LET st == WriteEntries([fs |-> f, calls |-> <<>>], rid, obj, names, bad, c)
         IN  [fs |-> st.fs, calls |-> Append(st.calls, NotifyCall(c))]

\* A tidy Update handler, for comparison: before it writes, it removes the
\* files of the same entry names from every other folder
UpdateFunc_MovesFiles(f, rid, obj, names, bad, c) ==
    IF ~matchesLabel(obj.labels, c.Label, c.LabelValue)
    THEN [fs |-> f, calls |-> <<>>]
    ELSE LET folder == ResolveFolder(c.Folder, c.FolderAnnotation, obj.annotations)
             kept == {p \in f.files : p[1][1] = folder \/ p[1][2] \notin Keys(obj.data)}
         IN  WriteEntries([fs |-> [f EXCEPT !.files = kept], calls |-> <<>>],
                          rid, obj, names, bad, c)

\* A faulty Update handler, for comparison: it writes into the folder it was
\* started with, whatever the object's annotations
UpdateFunc_FixedFolder(f, rid, obj, names, bad, c) ==
    IF ~matchesLabel(obj.labels, c.Label, c.LabelValue)
    THEN [fs |-> f, calls |-> <<>>]
    ELSE WriteEntries([fs |-> f, calls |-> <<>>], rid, obj, names, bad,
                      [c EXCEPT !.FolderAnnotation = ""])

UpdateFunc(f, rid, obj, names, bad, c) ==
    IF ~matchesLabel(obj.labels, c.Label, c.LabelValue)
    THEN [fs |-> f, calls |-> <<>>]
    ELSE WriteEntries([fs |-> f, calls |-> <<>>], rid, obj, names, bad, c)

\* A faulty Delete handler, for comparison: it leaves the files alone
DeleteFunc_KeepsFiles(f, rid, obj, names, bad, c) == [fs |-> f, calls |-> <<>>]

DeleteFunc(f, rid, obj, names, bad, c) ==
    IF ~matchesLabel(obj.labels, c.Label, c.LabelValue)
    THEN [fs |-> f, calls |-> <<>>]
    ELSE RemoveEntries([fs |-> f, calls |-> <<>>], rid, obj, names, bad, c)

\* cache.DeletedFinalStateUnknown: what the informer hands to the delete
\* handler when it has missed the deletion and knows the object's last state
\* from its cache only
DeletedFinalStateUnknown(key, obj) == [Key |-> key, Obj |-> obj]

\* the dynamic type of the handler's argument is *corev1.ConfigMap for the
\* ConfigMap informer, *corev1.Secret for the Secret informer
IsResourceObject(payload) == DOMAIN payload = {"labels", "annotations", "data"}

\* The delete notification as the informer delivers it: the type assertion
\* obj.(*corev1.ConfigMap) / obj.(*corev1.Secret) is unchecked and panics on
\* any other type; the panic ends the process.
OnDelete(f, rid, payload, names, bad, c) ==
    IF ~IsResourceObject(payload)
    THEN [fs |-> f, calls |-> <<>>, panic |-> TRUE]
    ELSE LET st == DeleteFunc(f, rid, payload, names, bad, c)
         IN  [fs |-> st.fs, calls |-> st.calls, panic |-> FALSE]

-----------------------------------------------------------------------------
(* SideCar.syncResources *)

ListCall(kind, err) == Call("List", <<kind, "", "">>, <<>>, <<>>, <<>>, err)

\* The <<rid, object, entry name>> triples in the order the two nested loops
\* visit them
RECURSIVE Entries(_, _)
Entries(items, rank) ==
    IF items = <<>> THEN <<>>
    ELSE LET rid == Head(items)[1]
             obj == Head(items)[2]
             names == EntryOrder(obj, rank)
         IN  [i \in 1..Len(names) |-> <<rid, obj, names[i]>>] \o Entries(Tail(items), rank)

\* st is [fs, calls, fatal, aborted]; fatalOnError: the ConfigMap branch ends
\* the process with log.Fatalf when a Write fails, the Secret branch logs.
RECURSIVE SyncEntries(_, _, _, _, _)
SyncEntries(st, entries, bad, fatalOnError, c) ==
    IF entries = <<>> \/ st.fatal THEN st
    ELSE LET rid == Head(entries)[1]
             obj == Head(entries)[2]
             fileName == Head(entries)[3]
             data == StringOf(Get(obj.data, fileName))
             folder == ResolveFolder(c.Folder, c.FolderAnnotation, obj.annotations)
             r == Write(st.fs, folder, fileName, data, <<folder, fileName>> \in bad)
         IN  IF ~IsJSON(fileName)
             THEN SyncEntries(st, Tail(entries), bad, fatalOnError, c)
             ELSE SyncEntries([st EXCEPT !.fs = r.fs,
                                         !.calls = Append(@, Call("Write", rid, folder, fileName, data, r.err)),
                                         !.fatal = r.err /\ fatalOnError],
                              Tail(entries), bad, fatalOnError, c)

\* A faulty pass, for comparison: after a failed list call it goes on with
\* the next kind
RECURSIVE SyncKinds_SkipKind(_, _, _, _, _, _, _)
SyncKinds_SkipKind(st, resources, cmRes, secRes, rank, bad, c) ==
    IF resources = <<>> \/ st.fatal THEN st
    ELSE LET resource == Head(resources)
             res == IF resource = RESOURCE_CONFIGMAP THEN cmRes ELSE secRes
             st1 == [st EXCEPT !.calls = Append(@, ListCall(resource, res.err))]
         IN  IF res.err
             THEN SyncKinds_SkipKind(st1, Tail(resources), cmRes, secRes, rank, bad, c)
             ELSE SyncKinds_SkipKind(SyncEntries(st1, Entries(res.items, rank), bad,
                                                 resource = RESOURCE_CONFIGMAP, c),
                                     Tail(resources), cmRes, secRes, rank, bad, c)

RECURSIVE SyncKinds(_, _, _, _, _, _, _)
SyncKinds(st, resources, cmRes, secRes, rank, bad, c) ==
    IF resources = <<>> \/ st.fatal \/ st.aborted THEN st
    ELSE LET resource == Head(resources)
             res == IF resource = RESOURCE_CONFIGMAP THEN cmRes ELSE secRes
             st1 == [st EXCEPT !.calls = Append(@, ListCall(resource, res.err))]
         IN  IF res.err
             THEN [st1 EXCEPT !.aborted = TRUE]
             ELSE SyncKinds(SyncEntries(st1, Entries(res.items, rank), bad,
                                        resource = RESOURCE_CONFIGMAP, c),
                            Tail(resources), cmRes, secRes, rank, bad, c)

syncResources(f, cmRes, secRes, rank, bad, c) ==
    SyncKinds([fs |-> f, calls |-> <<>>, fatal |-> FALSE, aborted |-> FALSE],
              c.Resource, cmRes, secRes, rank, bad, c)

\* A faulty RunOnce, for comparison: Notify only when the pass wrote a file
RunOnce_NotifyIfWritten(f, cmRes, secRes, rank, bad, c) ==
    LET st == SyncKinds([fs |-> f, calls |-> <<>>, fatal |-> FALSE, aborted |-> FALSE],
                        c.Resource, cmRes, secRes, rank, bad, c)
    IN  IF st.fatal \/ \A i \in 1..Len(st.calls) : st.calls[i].op # "Write"
        THEN st
        ELSE [st EXCEPT !.calls = Append(@, NotifyCall(c))]

\* A faulty RunOnce, for comparison: a failed notification ends the process
RunOnce_FatalOnNotifyError(f, cmRes, secRes, rank, bad, c) ==
    LET st == syncResources(f, cmRes, secRes, rank, bad, c)
    IN  IF st.fatal THEN st
        ELSE [st EXCEPT !.calls = Append(@, NotifyCall(c)), !.fatal = NotifyCall(c).err]

\* A faulty RunOnce, for comparison: no Notify after a pass that a failed
\* list call has aborted
RunOnce_SilentOnAbort(f, cmRes, secRes, rank, bad, c) ==
    LET st == syncResources(f, cmRes, secRes, rank, bad, c)
    IN  IF st.fatal \/ st.aborted THEN st ELSE [st EXCEPT !.calls = Append(@, NotifyCall(c))]

\* RunOnce: the pass, then one Notify (unless the pass ended the process)
RunOnce(f, cmRes, secRes, rank, bad, c) ==
    LET st == syncResources(f, cmRes, secRes, rank, bad, c)
    IN  IF st.fatal THEN st ELSE [st EXCEPT !.calls = Append(@, NotifyCall(c))]

-----------------------------------------------------------------------------
(* State *)

\* The selector of the configuration as the specification defines it: no key,
\* or no value and the key carried, or the key carried with the value
Satisfies(labels, key, value) ==
    \/ key = ""
    \/ value = "" /\ key \in Keys(labels)
    \/ <<key, value>> \in labels

NumScopes(c) == IF Len(c.Namespaces) = 0 THEN 1 ELSE Len(c.Namespaces)

\* The namespace argument of the i-th call of configMapInformerWorker /
\* secretInformerWorker (nil, no restriction, is NamespaceAll)
Scope(namespaces, i) == IF Len(namespaces) = 0 THEN NamespaceAll ELSE namespaces[i]

InformerIds == Kinds \X (1..2)

Configured(c) == {c.Resource[i] : i \in 1..Len(c.Resource)}

CountCalls(calls, op) == Cardinality({i \in 1..Len(calls) : calls[i].op = op})

Failed(calls, op) == \E i \in 1..Len(calls) : calls[i].op = op /\ calls[i].err

Touches(calls) ==
    {<<<<calls[i].folder, calls[i].fileName>>, calls[i].rid>> :
        i \in {j \in 1..Len(calls) : calls[j].op \in {"Write", "Remove"}}}

\* What an operation that made the calls of out leaves behind
Effect(out, type, rid, obj) ==
    /\ fs' = out.fs
    /\ notifyCount' = notifyCount + CountCalls(out.calls, "Notify")
    /\ writeFailed' = (writeFailed \/ Failed(out.calls, "Write"))
    /\ removeFailed' = (removeFailed \/ Failed(out.calls, "Remove"))
    /\ touched' = touched \cup Touches(out.calls)
    /\ last' = [type |-> type, rid |-> rid, obj |-> obj, calls |-> out.calls]

InitWith(configs) ==
    /\ cfg \in configs
    /\ cluster = {}
    /\ changes = 0
    /\ pc = "start"
    /\ ctxDone = FALSE
    /\ wg = 0
    /\ worker = [k \in Kinds |-> [state |-> "none", next |-> 1]]
    /\ informer = [id \in InformerIds |-> [state |-> "idle", namespace |-> NamespaceAll, queue |-> <<>>]]
    /\ fs = [files |-> {}, dirs |-> {<<>>}]
    /\ notifyCount = 0
    /\ addsMatched = 0
    /\ writeFailed = FALSE
    /\ removeFailed = FALSE
    /\ touched = {}
    /\ last = [type |-> "none", rid |-> NoRid, obj |-> NoObject, calls |-> <<>>]

Init == InitWith(Configs)

-----------------------------------------------------------------------------
(* The cluster and the watch streams *)

Event(type, rid, obj) == [type |-> type, rid |-> rid, obj |-> obj]

\* A faulty watch, for comparison: the factory lacks the WithNamespace option
Covers_AnyNamespace(kind, namespace, rid) == kind = rid[1]

\* The watch of a factory built WithNamespace(namespace), or without the
\* option (NamespaceAll), for the resources of a kind covers resource rid.
\* The stream carries the changes of every object it covers, whatever its
\* labels, as the clientset of the repository's tests does: the handlers do
\* the matching.
Covers(kind, namespace, rid) ==
    /\ kind = rid[1]
    /\ namespace \in {NamespaceAll, rid[2]}

\* The watch stream hands the event to every running informer observing rid
Deliver(ev) ==
    informer' = [id \in InformerIds |->
                    IF informer[id].state = "running" /\ Covers(id[1], informer[id].namespace, ev.rid)
                    THEN [informer[id] EXCEPT !.queue = Append(@, ev)]
                    ELSE informer[id]]

\* The model follows the resources of the configured kinds until the context
\* is cancelled: a change after the cancellation reaches only informers that
\* have not stopped yet, exactly as the same change made just before it.
Mutable(rid) ==
    /\ changes < MaxChanges
    /\ rid[1] \in Configured(cfg)
    /\ pc \in {"start", "waiting"}
    /\ ~ctxDone

Sidecar == <<pc, ctxDone, wg, worker, fs, notifyCount, addsMatched,
             writeFailed, removeFailed, touched, last>>

Create(rid, obj) ==
    /\ Mutable(rid)
    /\ ~Has(cluster, rid)
    /\ cluster' = Put(cluster, rid, obj)
    /\ changes' = changes + 1
    /\ Deliver(Event("Add", rid, obj))
    /\ UNCHANGED <<cfg, Sidecar>>

Update(rid, obj) ==
    /\ Mutable(rid)
    /\ Has(cluster, rid)
    /\ Get(cluster, rid) # obj
    /\ cluster' = Put(cluster, rid, obj)
    /\ changes' = changes + 1
    /\ Deliver(Event("Update", rid, obj))
    /\ UNCHANGED <<cfg, Sidecar>>

Delete(rid) ==
    /\ Mutable(rid)
    /\ Has(cluster, rid)
    /\ cluster' = Del(cluster, rid)
    /\ changes' = changes + 1
    /\ Deliver(Event("Delete", rid, Get(cluster, rid)))
    /\ UNCHANGED <<cfg, Sidecar>>

\* SIGINT / SIGTERM: main's goroutine cancels the context.  The pass does not
\* look at the context, so a signal during it shows once Run waits.
Cancel ==
    /\ ~ctxDone
    /\ pc = "waiting"
    /\ ctxDone' = TRUE
    /\ UNCHANGED <<cfg, cluster, changes, pc, wg, worker, informer, fs, notifyCount,
                   addsMatched, writeFailed, removeFailed, touched, last>>

-----------------------------------------------------------------------------
(* SideCar.Run *)

JSONKeys(objs, c) ==
    UNION {{k \in TargetKeys(o, c) : IsJSON(k[2])} : o \in objs}

PassInputs(c) ==
    {[cmRes |-> cm, secRes |-> sec, rank |-> rank, bad |-> bad] :
        cm \in GetConfigMaps(cluster, c.Namespaces, c.Label, c.LabelValue),
        sec \in GetSecrets(cluster, c.Namespaces, c.Label, c.LabelValue),
        rank \in Perms(UNION {Keys(p[2].data) : p \in cluster}),
        bad \in SUBSET JSONKeys({p[2] : p \in cluster}, c)}

\* A faulty switch, for comparison: mode sleep runs one pass and returns
RunCase_SleepOnce(method) ==
    IF method = METHOD_WATCH THEN "watch"
    ELSE IF method \in {METHOD_LIST, METHOD_SLEEP} THEN "list"
    ELSE "default"

\* The branch the switch of Run takes
RunCase(method) ==
    IF method \in {METHOD_WATCH, METHOD_SLEEP} THEN "watch"
    ELSE IF method = METHOD_LIST THEN "list"
    ELSE "default"

\* case METHOD_WATCH, METHOD_SLEEP: syncResources, then WaitForChanges up to
\* Wg.Wait: a new WaitGroup, and Wg.Add(1) and a goroutine per resource kind
WatchBranch(c) ==
    /\ \E in \in PassInputs(c) :
          LET out == syncResources(fs, in.cmRes, in.secRes, in.rank, in.bad, c)
          IN  /\ Effect(out, "Sync", NoRid, NoObject)
              /\ IF out.fatal
                 THEN /\ pc' = "fatal"
                      /\ UNCHANGED <<wg, worker>>
                 ELSE /\ pc' = "waiting"
                      /\ wg' = Len(c.Resource)
                      /\ worker' = [k \in Kinds |->
                                       IF k \in Configured(c)
                                       THEN [state |-> "starting", next |-> 1]
                                       ELSE worker[k]]
    /\ UNCHANGED <<cfg, cluster, changes, ctxDone, informer, addsMatched>>

\* case METHOD_LIST: RunOnce
ListBranch(c) ==
    /\ \E in \in PassInputs(c) :
          LET out == RunOnce(fs, in.cmRes, in.secRes, in.rank, in.bad, c)
          IN  /\ Effect(out, "RunOnce", NoRid, NoObject)
              /\ pc' = IF out.fatal THEN "fatal" ELSE "exited"
    /\ UNCHANGED <<cfg, cluster, changes, ctxDone, wg, worker, informer, addsMatched>>

\* default: the method is logged as invalid and Run returns; main then logs
\* "SideCar exited" and returns
DefaultBranch(c) ==
    /\ Effect([fs |-> fs, calls |-> <<>>], "Invalid", NoRid, NoObject)
    /\ pc' = "exited"
    /\ UNCHANGED <<cfg, cluster, changes, ctxDone, wg, worker, informer, addsMatched>>

\* SideCar.Run of a sidecar configured as c
Run(c) ==
    /\ pc = "start"
    /\ CASE RunCase(c.Method) = "watch" -> WatchBranch(c)
         [] RunCase(c.Method) = "list" -> ListBranch(c)
         [] OTHER -> DefaultBranch(c)

RunWatch ==
    /\ pc = "start"
    /\ RunCase(cfg.Method) = "watch"
    /\ WatchBranch(cfg)

RunList ==
    /\ pc = "start"
    /\ RunCase(cfg.Method) = "list"
    /\ ListBranch(cfg)

RunDefault ==
    /\ pc = "start"
    /\ RunCase(cfg.Method) = "default"
    /\ DefaultBranch(cfg)

\* The status the process has ended with: log.Fatalf exits with 1, a return
\* of main with 0
ExitStatus == IF pc = "fatal" THEN 1 ELSE 0

\* A faulty wait, for comparison: Run returns only once the context is
\* cancelled
WaitReturn_AfterCancel ==
    /\ pc = "waiting"
    /\ wg = 0
    /\ ctxDone
    /\ pc' = "exited"
    /\ UNCHANGED <<cfg, cluster, changes, ctxDone, wg, worker, informer, fs, notifyCount,
                   addsMatched, writeFailed, removeFailed, touched, last>>

\* Wg.Wait returns
WaitReturn ==
    /\ pc = "waiting"
    /\ wg = 0
    /\ pc' = "exited"
    /\ UNCHANGED <<cfg, cluster, changes, ctxDone, wg, worker, informer, fs, notifyCount,
                   addsMatched, writeFailed, removeFailed, touched, last>>

-----------------------------------------------------------------------------
(* ConfigMapInformerWorker / SecretInformerWorker *)

\* A faulty start, for comparison: the informer delivers no Add event for
\* the objects that exist when it starts
StartInformer_NoReplay(k) ==
    /\ pc = "waiting"
    /\ worker[k].state = "starting"
    /\ LET i == worker[k].next
           id == <<k, i>>
           namespace == Scope(cfg.Namespaces, i)
       IN  /\ informer' = [informer EXCEPT ![id] =
                              [state |-> IF ctxDone THEN "cancelled" ELSE "running",
                               namespace |-> namespace, queue |-> <<>>]]
           /\ worker' = [worker EXCEPT ![k] =
                            IF i = NumScopes(cfg)
                            THEN [state |-> "blocked", next |-> i]
                            ELSE [state |-> "starting", next |-> i + 1]]
    /\ UNCHANGED <<cfg, cluster, changes, pc, ctxDone, wg, fs, notifyCount,
                   addsMatched, writeFailed, removeFailed, touched, last>>

\* One call of configMapInformerWorker / secretInformerWorker: the informer
\* of the next namespace is started and its cache synchronized, which queues
\* an Add event per object its list call, made with the label selector,
\* returns.  With the context already cancelled the stop channel is closed:
\* WaitForCacheSync returns at once and the informer never runs ("cancelled").
StartInformer(k) ==
    /\ pc = "waiting"
    /\ worker[k].state = "starting"
    /\ LET i == worker[k].next
           id == <<k, i>>
           namespace == Scope(cfg.Namespaces, i)
           seen == Listed(cluster, k, namespace, LabelSelector(cfg.Label, cfg.LabelValue))
       IN  /\ \E order \in Perms(seen) :
                 informer' = [informer EXCEPT ![id] =
                     IF ctxDone
                     THEN [state |-> "cancelled", namespace |-> namespace, queue |-> <<>>]
                     ELSE [state |-> "running", namespace |-> namespace,
                           queue |-> [j \in 1..Len(order) |-> Event("Add", order[j][1], order[j][2])]]]
           /\ worker' = [worker EXCEPT ![k] =
                            IF i = NumScopes(cfg)
                            THEN [state |-> "blocked", next |-> i]
                            ELSE [state |-> "starting", next |-> i + 1]]
    /\ UNCHANGED <<cfg, cluster, changes, pc, ctxDone, wg, fs, notifyCount,
                   addsMatched, writeFailed, removeFailed, touched, last>>

\* A faulty worker, for comparison: it returns without c.Wg.Done()
WorkerDone_NoDecrement(k) ==
    /\ pc = "waiting"
    /\ worker[k].state = "blocked"
    /\ ctxDone
    /\ worker' = [worker EXCEPT ![k].state = "done"]
    /\ UNCHANGED <<cfg, cluster, changes, pc, ctxDone, wg, informer, fs, notifyCount,
                   addsMatched, writeFailed, removeFailed, touched, last>>

\* <-c.Ctx.Done(); c.Wg.Done()
WorkerDone(k) ==
    /\ pc = "waiting"
    /\ worker[k].state = "blocked"
    /\ ctxDone
    /\ worker' = [worker EXCEPT ![k].state = "done"]
    /\ wg' = wg - 1
    /\ UNCHANGED <<cfg, cluster, changes, pc, ctxDone, informer, fs, notifyCount,
                   addsMatched, writeFailed, removeFailed, touched, last>>

\* The informer's goroutines see the closed stop channel
InformerStop(id) ==
    /\ pc = "waiting"
    /\ informer[id].state = "running"
    /\ ctxDone
    /\ informer' = [informer EXCEPT ![id] = [@ EXCEPT !.state = "stopped", !.queue = <<>>]]
    /\ UNCHANGED <<cfg, cluster, changes, pc, ctxDone, wg, worker, fs, notifyCount,
                   addsMatched, writeFailed, removeFailed, touched, last>>

Handler(type, f, rid, obj, names, bad, c) ==
    CASE type = "Add" -> AddFunc(f, rid, obj, names, bad, c)
      [] type = "Update" -> UpdateFunc(f, rid, obj, names, bad, c)
      [] type = "Delete" -> DeleteFunc(f, rid, obj, names, bad, c)

\* The informer calls the handler of its oldest pending event.  Once Run has
\* returned main returns and the process, with all its goroutines, is gone.
HandleEvent(id) ==
    /\ pc = "waiting"
    /\ informer[id].state = "running"
    /\ informer[id].queue # <<>>
    /\ LET ev == Head(informer[id].queue)
       IN  /\ \E names \in Perms(Keys(ev.obj.data)),
                 bad \in SUBSET JSONKeys({ev.obj}, cfg) :
                 Effect(Handler(ev.type, fs, ev.rid, ev.obj, names, bad, cfg),
                        ev.type, ev.rid, ev.obj)
           /\ addsMatched' = IF ev.type = "Add" /\ Satisfies(ev.obj.labels, cfg.Label, cfg.LabelValue)
                             THEN addsMatched + 1 ELSE addsMatched
    /\ informer' = [informer EXCEPT ![id].queue = Tail(@)]
    /\ UNCHANGED <<cfg, cluster, changes, pc, ctxDone, wg, worker>>

-----------------------------------------------------------------------------

Next ==
    \/ \E rid \in Rids, obj \in Objects : Create(rid, obj)
    \/ \E rid \in Rids, obj \in Objects : Update(rid, obj)
    \/ \E rid \in Rids : Delete(rid)
    \/ Cancel
    \/ RunWatch
    \/ RunList
    \/ RunDefault
    \/ WaitReturn
    \/ \E k \in Kinds : StartInformer(k)
    \/ \E k \in Kinds : WorkerDone(k)
    \/ \E id \in InformerIds : InformerStop(id)
    \/ \E id \in InformerIds : HandleEvent(id)

Spec == Init /\ [][Next]_vars

\* The main goroutine and the worker goroutines keep running: as long as
\* one of them can take its next step, one of them does.  Nothing is assumed
\* of the cluster, of the signal or of the informers' goroutines.
Fairness ==
    WF_vars(\/ \E k \in Kinds : StartInformer(k)
            \/ \E k \in Kinds : WorkerDone(k)
            \/ WaitReturn)

FairSpec == Spec /\ Fairness

\* The same program with workers for both kinds
InitBoth == InitWith(ConfigsBoth)

SpecBoth == InitBoth /\ [][Next]_vars

\* The same program started against a cluster that already holds two
\* matching ConfigMaps of the same name, one per watched namespace, both with
\* an entry a.json
ConfigsShared ==
    { Config(METHOD_WATCH, <<"ns1", "ns2">>, "app", "myapp", DEFAULT_FOLDER_ANNOTATION, <<RESOURCE_CONFIGMAP>>),
      Config(METHOD_WATCH, <<"ns1">>, "app", "myapp", DEFAULT_FOLDER_ANNOTATION, <<RESOURCE_CONFIGMAP>>),
      Config(METHOD_LIST, <<"ns1", "ns2">>, "app", "myapp", DEFAULT_FOLDER_ANNOTATION, <<RESOURCE_CONFIGMAP>>),
      Config(METHOD_OTHER, <<"ns1">>, "app", "myapp", DEFAULT_FOLDER_ANNOTATION, <<RESOURCE_CONFIGMAP>>) }

StartupCluster ==
    { <<<<RESOURCE_CONFIGMAP, "ns1", "x">>, Object(Matching, {}, {<<A_JSON, ONE>>, <<C_YAML, ONE>>})>>,
      <<<<RESOURCE_CONFIGMAP, "ns2", "x">>, Object(Matching, {}, {<<A_JSON, TWO>>, <<B_JSON, ONE>>})>> }

InitShared ==
    /\ cfg \in ConfigsShared
    /\ cluster = StartupCluster
    /\ changes = 0
    /\ pc = "start"
    /\ ctxDone = FALSE
    /\ wg = 0
    /\ worker = [k \in Kinds |-> [state |-> "none", next |-> 1]]
    /\ informer = [id \in InformerIds |-> [state |-> "idle", namespace |-> NamespaceAll, queue |-> <<>>]]
    /\ fs = [files |-> {}, dirs |-> {<<>>}]
    /\ notifyCount = 0
    /\ addsMatched = 0
    /\ writeFailed = FALSE
    /\ removeFailed = FALSE
    /\ touched = {}
    /\ last = [type |-> "none", rid |-> NoRid, obj |-> NoObject, calls |-> <<>>]

SpecShared == InitShared /\ [][Next]_vars

-----------------------------------------------------------------------------
(* The functions and handlers called on their own, as the unit tests call   *)
(* them: one call per behaviour, on inputs drawn from the sets below.       *)

J_UPPER == <<"a", ".", "J", "S", "O", "N">>
NO_DOT == <<"a", "j", "s", "o", "n">>
BARE == <<"j", "s", "o", "n">>
TRUNCATED == <<"a", ".", "j", "s", "o">>
BACKUP == <<"a", ".", "j", "s", "o", "n", ".", "b">>
NO_SUFFIX == <<"a">>

NameInputs ==
    {A_JSON, B_JSON, C_YAML, JSON_SUFFIX, J_UPPER, NO_DOT, BARE, TRUNCATED, BACKUP, NO_SUFFIX, <<>>}

LabelInputs ==
    {l \in SUBSET ({"app", "ap", "team"} \X {"myapp", "my", ""}) :
        /\ Cardinality(l) <= 2
        /\ \A p, q \in l : p[1] = q[1] => p = q}

LabelKeyInputs == {"", "app", "ap"}

LabelValueInputs == {"", "myapp", "my"}

AnnotationInputs ==
    { {},
      {<<DEFAULT_FOLDER_ANNOTATION, <<"sub">>>>},
      {<<DEFAULT_FOLDER_ANNOTATION, <<"sub", "deep">>>>},
      {<<DEFAULT_FOLDER_ANNOTATION, <<>>>>},
      {<<DEFAULT_FOLDER_ANNOTATION, <<"..", "etc">>>>},
      {<<DEFAULT_FOLDER_ANNOTATION, <<"..">>>>},
      {<<DEFAULT_FOLDER_ANNOTATION, <<"sub", "..", "x">>>>},
      {<<DEFAULT_FOLDER_ANNOTATION, <<"..", "base", "x">>>>},
      {<<"other", <<"sub">>>>} }

MethodInputs == {"POST", "post", "GET", "PUT", ""}

CredentialInputs == {<<"", "">>, <<"admin", "">>, <<"", "secret">>, <<"admin", "secret">>}

BasicAuthInputs == {<<>>} \cup {<<BasicAuth(c[1], c[2])>> : c \in CredentialInputs}

PAYLOAD == "{}"

NotifierInputs ==
    {NewHTTPNotifier(URL_OK, m, b, PAYLOAD) : m \in MethodInputs, b \in BasicAuthInputs}
        \cup {NewHTTPNotifier(url, MethodPost, <<>>, PAYLOAD) : url \in {URL_EMPTY, URL_BAD}}

EnvInputs ==
    {[REQ_URL |-> URL_OK, REQ_METHOD |-> m, REQ_USERNAME |-> c[1], REQ_PASSWORD |-> c[2],
      REQ_PAYLOAD |-> PAYLOAD] : m \in {"POST", ""}, c \in CredentialInputs}

AnswerValues ==
    {Answer(199, FALSE), Answer(200, FALSE), Answer(299, FALSE), Answer(300, FALSE),
     Answer(302, TRUE), Answer(307, TRUE), Answer(500, FALSE)}

\* the endpoint gives up to MaxAnswers answers
AnswerInputs == UNION {[1..n -> AnswerValues] : n \in 0..MaxAnswers}

FolderInputs == {<<"base">>, <<"base", "sub">>, <<"base", "sub", "deep">>}

DataInputs ==
    {{}} \cup {{<<n, ONE>>} : n \in NameInputs \ {<<>>}}
        \cup {{<<A_JSON, ONE>>, <<n, TWO>>} : n \in NameInputs \ {A_JSON, <<>>}}

ObjectInputs == {Object({}, a, d) : a \in AnnotationInputs, d \in DataInputs}

\* no selector, so that every resource passes the matcher
ConfigInputs ==
    { Config(METHOD_WATCH, <<>>, "", "", DEFAULT_FOLDER_ANNOTATION, BOTH),
      Config(METHOD_WATCH, <<>>, "", "", "", BOTH) }

\* the filesystems a call can find: nothing, the base folder, the folders
\* down to base/sub with a file in the base folder, and a file in a folder
\* next to the base folder
FilesystemInputs ==
    { [files |-> {}, dirs |-> {<<>>}],
      [files |-> {}, dirs |-> {<<>>, <<"base">>}],
      [files |-> {<<<<<<"base">>, A_JSON>>, TWO>>}, dirs |-> {<<>>, <<"base">>, <<"base", "sub">>}],
      [files |-> {<<<<<<"etc">>, A_JSON>>, TWO>>}, dirs |-> {<<>>, <<"base">>, <<"etc">>}] }

InitUnit ==
    /\ cfg \in ConfigInputs
    /\ cluster = {}
    /\ changes = 0
    /\ pc = "unit"
    /\ ctxDone = FALSE
    /\ wg = 0
    /\ worker = [k \in Kinds |-> [state |-> "none", next |-> 1]]
    /\ informer = [id \in InformerIds |-> [state |-> "idle", namespace |-> NamespaceAll, queue |-> <<>>]]
    /\ fs \in FilesystemInputs
    /\ notifyCount = 0
    /\ addsMatched = 0
    /\ writeFailed = FALSE
    /\ removeFailed = FALSE
    /\ touched = {}
    /\ last = [type |-> "none", rid |-> NoRid, obj |-> NoObject, calls |-> <<>>]

\* the record of one call of a function
Applied(name, in, out) == [type |-> name, in |-> in, out |-> out]

Fresh == pc = "unit" /\ last.type = "none"

CallMatchesLabel(labels, key, value) ==
    /\ Fresh
    /\ last' = Applied("matchesLabel", <<labels, key, value>>, matchesLabel(labels, key, value))
    /\ UNCHANGED <<cfg, cluster, changes, pc, ctxDone, wg, worker, informer, fs, notifyCount,
                   addsMatched, writeFailed, removeFailed, touched>>

CallIsJSON(fileName) ==
    /\ Fresh
    /\ last' = Applied("IsJSON", fileName, IsJSON(fileName))
    /\ UNCHANGED <<cfg, cluster, changes, pc, ctxDone, wg, worker, informer, fs, notifyCount,
                   addsMatched, writeFailed, removeFailed, touched>>

CallResolveFolder(annotations) ==
    /\ Fresh
    /\ last' = Applied("ResolveFolder", annotations,
                       ResolveFolder(cfg.Folder, cfg.FolderAnnotation, annotations))
    /\ UNCHANGED <<cfg, cluster, changes, pc, ctxDone, wg, worker, informer, fs, notifyCount,
                   addsMatched, writeFailed, removeFailed, touched>>

\* FileWriter.Write on a filesystem that lets every permitted operation pass
CallWrite(folder, fileName, data) ==
    /\ Fresh
    /\ LET r == Write(fs, folder, fileName, data, FALSE)
       IN  /\ fs' = r.fs
           /\ last' = Applied("Write", <<folder, fileName, data, fs>>, r.err)
    /\ UNCHANGED <<cfg, cluster, changes, pc, ctxDone, wg, worker, informer, notifyCount,
                   addsMatched, writeFailed, removeFailed, touched>>

\* the same Write once more, right after the first
CallWriteAgain ==
    /\ pc = "unit"
    /\ last.type = "Write"
    /\ LET r == Write(fs, last.in[1], last.in[2], last.in[3], FALSE)
       IN  /\ fs' = r.fs
           /\ last' = Applied("WriteAgain", <<last.in[1], last.in[2], last.in[3], fs>>, r.err)
    /\ UNCHANGED <<cfg, cluster, changes, pc, ctxDone, wg, worker, informer, notifyCount,
                   addsMatched, writeFailed, removeFailed, touched>>

\* FileWriter.Remove on a filesystem that lets every permitted operation pass
CallRemove(folder, fileName) ==
    /\ Fresh
    /\ LET r == Remove(fs, folder, fileName, FALSE)
       IN  /\ fs' = r.fs
           /\ last' = Applied("Remove", <<folder, fileName, fs>>, r.err)
    /\ UNCHANGED <<cfg, cluster, changes, pc, ctxDone, wg, worker, informer, notifyCount,
                   addsMatched, writeFailed, removeFailed, touched>>

\* HTTPNotifier.Notify of a notifier built directly, as the tests build it
CallNotify(n, answers) ==
    /\ Fresh
    /\ last' = Applied("Notify", <<n, answers>>, Notify(n, answers))
    /\ UNCHANGED <<cfg, cluster, changes, pc, ctxDone, wg, worker, informer, fs, notifyCount,
                   addsMatched, writeFailed, removeFailed, touched>>

\* Notify of the notifier New builds in an environment
CallNewNotify(env, answers) ==
    /\ Fresh
    /\ last' = Applied("NewNotify", <<env, answers>>, Notify(NewNotifier(env), answers))
    /\ UNCHANGED <<cfg, cluster, changes, pc, ctxDone, wg, worker, informer, fs, notifyCount,
                   addsMatched, writeFailed, removeFailed, touched>>

\* one event handler of a kind's informer called with an object
CallHandler(type, rid, obj) ==
    /\ Fresh
    /\ \E names \in Perms(Keys(obj.data)) :
          Effect(Handler(type, fs, rid, obj, names, {}, cfg), type, rid, obj)
    /\ UNCHANGED <<cfg, cluster, changes, pc, ctxDone, wg, worker, informer, addsMatched>>

\* the arguments the informer can call the delete handler with
DeleteInputs ==
    {Object({}, {}, d) : d \in DataInputs}
        \cup {DeletedFinalStateUnknown(<<rid[2], rid[3]>>, Object({}, {}, d)) : rid \in Rids, d \in DataInputs}

\* the delete handler of a kind's informer called with what the informer
\* delivers
CallOnDelete(rid, payload) ==
    /\ Fresh
    /\ \E names \in Perms(IF IsResourceObject(payload) THEN Keys(payload.data) ELSE {}) :
          LET out == OnDelete(fs, rid, payload, names, {}, cfg)
          IN  /\ fs' = out.fs
              /\ removeFailed' = (removeFailed \/ Failed(out.calls, "Remove"))
              /\ touched' = touched \cup Touches(out.calls)
              /\ last' = Applied("OnDelete", <<rid, payload>>, [panic |-> out.panic, calls |-> out.calls])
    /\ UNCHANGED <<cfg, cluster, changes, pc, ctxDone, wg, worker, informer, notifyCount,
                   addsMatched, writeFailed>>

\* syncResources with one resource of a kind in the cluster
CallSyncResources(rid, obj) ==
    /\ Fresh
    /\ LET one == [items |-> <<<<rid, obj>>>>, err |-> FALSE]
           none == [items |-> <<>>, err |-> FALSE]
       IN  \E rank \in Perms(Keys(obj.data)) :
              Effect(syncResources(fs,
                                   IF rid[1] = RESOURCE_CONFIGMAP THEN one ELSE none,
                                   IF rid[1] = RESOURCE_SECRET THEN one ELSE none,
                                   rank, {}, cfg),
                     "Sync", rid, obj)
    /\ UNCHANGED <<cfg, cluster, changes, pc, ctxDone, wg, worker, informer, addsMatched>>

NextUnit ==
    \/ Fresh /\ \E labels \in LabelInputs, key \in LabelKeyInputs, value \in LabelValueInputs :
                   CallMatchesLabel(labels, key, value)
    \/ Fresh /\ \E fileName \in NameInputs : CallIsJSON(fileName)
    \/ Fresh /\ \E annotations \in AnnotationInputs : CallResolveFolder(annotations)
    \/ Fresh /\ \E folder \in FolderInputs, fileName \in {A_JSON, C_YAML}, data \in {ONE, TWO} :
                   CallWrite(folder, fileName, data)
    \/ CallWriteAgain
    \/ Fresh /\ \E folder \in FolderInputs, fileName \in {A_JSON, C_YAML} : CallRemove(folder, fileName)
    \/ Fresh /\ \E n \in NotifierInputs, answers \in AnswerInputs : CallNotify(n, answers)
    \/ Fresh /\ \E env \in EnvInputs, answers \in AnswerInputs : CallNewNotify(env, answers)
    \/ Fresh /\ \E type \in {"Add", "Update", "Delete"}, rid \in Rids, obj \in ObjectInputs :
                   CallHandler(type, rid, obj)
    \/ Fresh /\ \E rid \in Rids, payload \in DeleteInputs : CallOnDelete(rid, payload)
    \/ Fresh /\ \E rid \in Rids, obj \in ObjectInputs : CallSyncResources(rid, obj)

SpecUnit == InitUnit /\ [][NextUnit]_vars

-----------------------------------------------------------------------------
(* Vocabulary of the properties, stated independently of the operators      *)
(* that model the code                                                      *)

Range(seq) == {seq[i] : i \in 1..Len(seq)}

EndsInJSON(n) ==
    /\ Len(n) >= 5
    /\ [i \in 1..5 |-> n[Len(n) - 5 + i]] = <<".", "j", "s", "o", "n">>

JSONEntries(obj) == {n \in Keys(obj.data) : EndsInJSON(n)}

\* the subdirectory the resource's annotation names, if the engine looks at one
Subdir(obj, c) ==
    IF c.FolderAnnotation # "" /\ c.FolderAnnotation \in Keys(obj.annotations)
    THEN Get(obj.annotations, c.FolderAnnotation)
    ELSE <<>>

\* join(base folder, annotation subdirectory, entry name)
MirrorPath(obj, n, c) == <<c.Folder \o Subdir(obj, c), n>>

\* a resource of a configured kind in a configured namespace
Watched(c, rid) ==
    /\ rid[1] \in Range(c.Resource)
    /\ Len(c.Namespaces) = 0 \/ rid[2] \in Range(c.Namespaces)

Selected(c, obj) == Satisfies(obj.labels, c.Label, c.LabelValue)

Mirrored(obj, n) ==
    /\ Has(fs.files, MirrorPath(obj, n, cfg))
    /\ Get(fs.files, MirrorPath(obj, n, cfg)) = Get(obj.data, n)

WatchMode == cfg.Method \in {METHOD_WATCH, METHOD_SLEEP}

Events == {"Add", "Update", "Delete"}

\* Every worker has started all its informers, every event delivered so far
\* has been handled, and no Write or Remove has returned an error
Settled ==
    /\ WatchMode
    /\ pc = "waiting"
    /\ ~ctxDone
    /\ \A k \in Range(cfg.Resource) : worker[k].state = "blocked"
    /\ \A id \in InformerIds : informer[id].queue = <<>>
    /\ ~writeFailed
    /\ ~removeFailed

\* no call of Write or Remove at the path was made for another resource
Sole(path, rid) == \A t \in touched : t[1] = path => t[2] = rid

-----------------------------------------------------------------------------
(* C1 *)

\* C1 as stated: in watch mode, once all events are processed without a
\* filesystem error, every .json entry of every existing, watched resource
\* that satisfies the selector is a file at join(base folder, annotation
\* subdirectory, entry name) holding the entry's content.
C1_AsStated ==
    Settled =>
        \A p \in cluster :
            Watched(cfg, p[1]) /\ Selected(cfg, p[2]) =>
                \A n \in JSONEntries(p[2]) : Mirrored(p[2], n)

\* C1, amended: the same for every entry at whose path no Write or Remove has
\* been made on behalf of another resource (two resources that map an entry
\* to one path overwrite and delete each other's file).
C1_MirrorOfUnsharedPaths ==
    Settled =>
        \A p \in cluster :
            Watched(cfg, p[1]) /\ Selected(cfg, p[2]) =>
                \A n \in JSONEntries(p[2]) :
                    Sole(MirrorPath(p[2], n, cfg), p[1]) => Mirrored(p[2], n)

\* An Update has been handled and left the resource's entry, at a path of its
\* own, on disk with the new content
C1_Witness ==
    /\ Settled
    /\ last.type = "Update"
    /\ \E p \in cluster :
          /\ p[1] = last.rid
          /\ Watched(cfg, p[1]) /\ Selected(cfg, p[2])
          /\ \E n \in JSONEntries(p[2]) :
                Sole(MirrorPath(p[2], n, cfg), p[1]) /\ Mirrored(p[2], n)

-----------------------------------------------------------------------------
(* C2, C3 *)

\* the paths at which Write or Remove has been called for the resource and
\* for no other resource
OwnPaths(rid) == {t[1] : t \in {u \in touched : u[2] = rid /\ Sole(u[1], rid)}}

\* C2 as stated: after an Update event of a resource that satisfies the
\* selector, no file exists at the path of an entry that was written for the
\* resource earlier and that the new data mapping no longer contains.
C2_AsStated ==
    (WatchMode /\ last.type = "Update" /\ Selected(cfg, last.obj)) =>
        \A path \in OwnPaths(last.rid) :
            path[2] \notin Keys(last.obj.data) => ~Has(fs.files, path)

\* C3 as stated: after an Update event whose new object does not satisfy the
\* selector, no file written earlier for the resource is on disk.
C3_AsStated ==
    (WatchMode /\ last.type = "Update" /\ ~Selected(cfg, last.obj)) =>
        \A path \in OwnPaths(last.rid) : ~Has(fs.files, path)

-----------------------------------------------------------------------------
(* C4, C5, C6: what the handlers do for a resource that satisfies the       *)
(* selector                                                                 *)

\* call is the call op for entry n of the resource at the entry's path
CallFor(call, op, rid, obj, n) ==
    /\ call.op = op
    /\ call.rid = rid
    /\ <<call.folder, call.fileName>> = MirrorPath(obj, n, cfg)

\* the first calls_n calls are exactly one call op per .json entry of obj;
\* a Write carries the entry's content and, unless it failed, the file
\* holds that content now
OnePerEntry(calls, calls_n, op, rid, obj) ==
    /\ calls_n = Cardinality(JSONEntries(obj))
    /\ \A i \in 1..calls_n : calls[i].op = op
    /\ \A n \in JSONEntries(obj) :
          \E i \in 1..calls_n :
              /\ CallFor(calls[i], op, rid, obj, n)
              /\ op = "Write" => /\ calls[i].data = Get(obj.data, n)
                                 /\ ~calls[i].err => Mirrored(obj, n)

-----------------------------------------------------------------------------
(* C7 *)

\* this step is the handling of the oldest event of informer id
Handles(id) ==
    /\ informer[id].state = "running"
    /\ informer[id].queue # <<>>
    /\ informer' = [informer EXCEPT ![id].queue = Tail(@)]

\* C7: handling an Add, Update or Delete event of a resource whose labels do
\* not satisfy the selector calls neither Write nor Remove nor Notify and
\* leaves the filesystem as it is.
C7_UnselectedEventIsNoOp ==
    [][\A id \in InformerIds :
          (Handles(id) /\ ~Selected(cfg, Head(informer[id].queue).obj)) =>
              /\ fs' = fs
              /\ notifyCount' = notifyCount
              /\ last'.calls = <<>>]_vars

\* an Update to labels that no longer satisfy the selector has been handled
\* and the file written before is still there
C7_Witness ==
    /\ last.type = "Update"
    /\ ~Selected(cfg, last.obj)
    /\ last.calls = <<>>
    /\ Has(fs.files, MirrorPath(last.obj, A_JSON, cfg))

-----------------------------------------------------------------------------
(* C8 *)

Started(k) == {id \in InformerIds : id[1] = k /\ informer[id].state # "idle"}

\* the resource a step of the cluster changes
ChangedRid == CHOOSE rid \in Rids :
                 \/ Has(cluster, rid) # Has(cluster', rid)
                 \/ Has(cluster, rid) /\ Get(cluster, rid) # Get(cluster', rid)

\* the namespace list names the namespace of informer id of the resource
Subscribed(id, rid) ==
    /\ id[1] = rid[1]
    /\ \/ Len(cfg.Namespaces) = 0
       \/ id[2] <= Len(cfg.Namespaces) /\ cfg.Namespaces[id[2]] = rid[2]

SubscriptionsAsConfigured ==
    /\ \A k \in Kinds \ Range(cfg.Resource) : Started(k) = {}
    /\ \A k \in Range(cfg.Resource) :
          worker[k].state \in {"blocked", "done"} =>
              IF Len(cfg.Namespaces) = 0
              THEN /\ Started(k) = {<<k, 1>>}
                   /\ informer[<<k, 1>>].namespace = NamespaceAll
              ELSE /\ Cardinality(Started(k)) = Len(cfg.Namespaces)
                   /\ \A i \in 1..Len(cfg.Namespaces) :
                         informer[<<k, i>>].namespace = cfg.Namespaces[i]

NothingForUnlistedNamespaces ==
    Len(cfg.Namespaces) > 0 =>
        /\ \A t \in touched : t[2][2] \in Range(cfg.Namespaces)
        /\ last.type \in Events => last.rid[2] \in Range(cfg.Namespaces)
        /\ \A id \in InformerIds :
              \A i \in 1..Len(informer[id].queue) :
                  informer[id].queue[i].rid[2] \in Range(cfg.Namespaces)

\* C8: with a namespace list, each configured kind gets one subscription per
\* listed namespace and no event of a resource of an unlisted namespace is
\* ever queued or handled (no Write, Remove or Notify for it); without a
\* list, each kind gets exactly one subscription, for all namespaces.  Every
\* change of a resource is queued at exactly the running informers whose
\* subscription covers it: all changes without a list.
C8_SubscriptionPerNamespace ==
    /\ [](SubscriptionsAsConfigured /\ NothingForUnlistedNamespaces)
    /\ [][cluster' # cluster =>
            \A id \in InformerIds :
                informer[id].state = "running" =>
                    IF Subscribed(id, ChangedRid)
                    THEN /\ Len(informer'[id].queue) = Len(informer[id].queue) + 1
                         /\ informer'[id].queue[Len(informer'[id].queue)].rid = ChangedRid
                    ELSE informer'[id].queue = informer[id].queue]_vars

\* one namespace is listed, its worker waits for events, the last event is
\* handled, and a selected resource of the kind lives in an unlisted namespace
C8_Witness ==
    /\ Len(cfg.Namespaces) = 1
    /\ WatchMode
    /\ \A k \in Range(cfg.Resource) : worker[k].state = "blocked"
    /\ last.type = "Add"
    /\ \A id \in InformerIds : informer[id].queue = <<>>
    /\ \E p \in cluster :
          /\ p[1][1] \in Range(cfg.Resource)
          /\ p[1][2] \notin Range(cfg.Namespaces)
          /\ Selected(cfg, p[2])
          /\ JSONEntries(p[2]) # {}

-----------------------------------------------------------------------------
(* C9 *)

NoListError(calls) == \A i \in 1..Len(calls) : ~(calls[i].op = "List" /\ calls[i].err)

C9_WitnessNone ==
    /\ cfg.Method = METHOD_LIST
    /\ pc = "exited"
    /\ notifyCount = 1
    /\ CountCalls(last.calls, "Write") = 0
    /\ NoListError(last.calls)

-----------------------------------------------------------------------------
(* C10 *)

\* a step that is a whole reconciliation pass in which no call failed
CleanPass ==
    /\ pc = "start"
    /\ pc' # "start"
    /\ last'.type \in {"Sync", "RunOnce"}
    /\ \A i \in 1..Len(last'.calls) : ~last'.calls[i].err

\* the <<rid, object, entry name>> of the .json entries of the resources of
\* the configured kinds and namespaces that satisfy the selector
PassEntries ==
    UNION {{<<p[1], p[2], n>> : n \in JSONEntries(p[2])} :
              p \in {q \in cluster : Watched(cfg, q[1]) /\ Selected(cfg, q[2])}}

WritesOf(calls) == {i \in 1..Len(calls) : calls[i].op = "Write"}

\* call i writes entry e: named as the entry, with the entry's content, into
\* join(base folder, annotation subdirectory)
WritesEntry(call, e) ==
    /\ call.rid = e[1]
    /\ call.fileName = e[3]
    /\ call.folder = cfg.Folder \o Subdir(e[2], cfg)
    /\ call.data = Get(e[2].data, e[3])

\* one Write per entry of PassEntries and no other Write
OneWritePerEntry(calls) ==
    /\ \A e \in PassEntries :
          Cardinality({i \in WritesOf(calls) : WritesEntry(calls[i], e)}) = 1
    /\ \A i \in WritesOf(calls) : \E e \in PassEntries : WritesEntry(calls[i], e)
    /\ Cardinality(WritesOf(calls)) = Cardinality(PassEntries)

WrittenPaths(calls) == {<<calls[i].folder, calls[i].fileName>> : i \in WritesOf(calls)}

\* C10 as stated: after a pass without error the files written are exactly
\* one per .json entry of the selected resources of the configured kinds and
\* namespaces, each named as its entry and holding its content, and nothing
\* else is written.
C10_AsStated ==
    [][CleanPass =>
         /\ OneWritePerEntry(last'.calls)
         /\ Cardinality(WrittenPaths(last'.calls)) = Cardinality(PassEntries)
         /\ \A e \in PassEntries :
               /\ Has(fs'.files, MirrorPath(e[2], e[3], cfg))
               /\ Get(fs'.files, MirrorPath(e[2], e[3], cfg)) = Get(e[2].data, e[3])
         /\ Keys(fs'.files) = Keys(fs.files) \cup WrittenPaths(last'.calls)]_vars

\* C10: after a pass without error, Write has been called exactly once per
\* .json entry of the selected resources of the configured kinds and
\* namespaces, with the entry's name and content, and for nothing else; the
\* files the pass leaves are those at the written paths, each holding the
\* content of the last Write at its path: the entry's content whenever no
\* other entry of the pass has the same path.
C10_PassWritesEachEntryOnce ==
    [][CleanPass =>
         /\ OneWritePerEntry(last'.calls)
         /\ \A e \in PassEntries :
               /\ Has(fs'.files, MirrorPath(e[2], e[3], cfg))
               /\ (\A d \in PassEntries :
                      MirrorPath(d[2], d[3], cfg) = MirrorPath(e[2], e[3], cfg) => d = e)
                  => Get(fs'.files, MirrorPath(e[2], e[3], cfg)) = Get(e[2].data, e[3])
         /\ \A i \in WritesOf(last'.calls) :
               (\A j \in WritesOf(last'.calls) :
                   j > i => <<last'.calls[j].folder, last'.calls[j].fileName>>
                            # <<last'.calls[i].folder, last'.calls[i].fileName>>)
               => Get(fs'.files, <<last'.calls[i].folder, last'.calls[i].fileName>>)
                  = last'.calls[i].data
         /\ Keys(fs'.files) = Keys(fs.files) \cup WrittenPaths(last'.calls)]_vars

\* a pass without error has written the .json entries of two resources while
\* the cluster also holds an entry that is no .json and a resource that does
\* not satisfy the selector
C10_Witness ==
    /\ last.type \in {"Sync", "RunOnce"}
    /\ \A i \in 1..Len(last.calls) : ~last.calls[i].err
    /\ Cardinality({last.calls[i].rid : i \in WritesOf(last.calls)}) = 2
    /\ \E p \in cluster : Watched(cfg, p[1]) /\ Selected(cfg, p[2]) /\ C_YAML \in Keys(p[2].data)
    /\ changes = 2

-----------------------------------------------------------------------------
(* C11 *)

\* some worker goroutine or informer exists
WorkersStarted ==
    \/ \E k \in Kinds : worker[k].state # "none"
    \/ \E id \in InformerIds : informer[id].state # "idle"

\* C11 as stated: in watch mode no worker is started before the pass has
\* finished (Run has left its start), the pass is the first operation of
\* Run, and Run has not returned unless the context is cancelled.
C11_AsStated ==
    WatchMode =>
        /\ WorkersStarted => pc \in {"waiting", "exited"}
        /\ pc \in {"waiting", "exited"} => last.type # "none"
        /\ pc = "exited" => ctxDone

-----------------------------------------------------------------------------
(* C12 *)

\* the configuration with mode watch in place of mode sleep
AsWatch(c) == [c EXCEPT !.Method = METHOD_WATCH]

-----------------------------------------------------------------------------
(* C13 *)

\* the process has ended
Ended == pc \in {"exited", "fatal"}

\* C13 as stated: with a mode other than watch, sleep and list, Run makes no
\* list call, no write and no notification, and the process ends with a
\* non-zero exit status.
C13_AsStated ==
    (cfg.Method \notin {METHOD_WATCH, METHOD_SLEEP, METHOD_LIST} /\ pc # "start") =>
        /\ last.calls = <<>>
        /\ touched = {}
        /\ notifyCount = 0
        /\ Ended
        /\ ExitStatus # 0

-----------------------------------------------------------------------------
(* C14 *)

NotDone == {k \in Range(cfg.Resource) : worker[k].state # "done"}

\* C14: the completion counter is the number of started workers that have
\* not decremented it (each decrements once, no worker twice); after the
\* cancellation every worker eventually decrements it and WaitForChanges
\* returns, whether the cancellation finds the worker blocked or still
\* starting the informers of its namespaces.
C14_WorkersFinishAfterCancel ==
    /\ []((WatchMode /\ pc \in {"waiting", "exited"}) =>
             /\ wg = Cardinality(NotDone)
             /\ \A k \in Kinds \ Range(cfg.Resource) : worker[k].state = "none")
    /\ [][\A k \in Kinds : worker[k].state = "done" => worker'[k].state = "done"]_vars
    /\ []((WatchMode /\ pc = "exited") => (NotDone = {} /\ wg = 0))
    /\ (ctxDone ~> pc = "exited")

\* WaitForChanges has returned after a cancellation that arrived while a
\* worker had one informer running and had not yet started the next one
C14_Witness ==
    /\ pc = "exited"
    /\ ctxDone
    /\ wg = 0
    /\ \E id \in InformerIds : informer[id].state = "cancelled"
    /\ \E id \in InformerIds : informer[id].state = "stopped"

-----------------------------------------------------------------------------
(* C15 *)

\* C15 as stated: once a worker has decremented the completion counter no
\* event handler of its informers calls Write, Remove or Notify, and none
\* does after WaitForChanges has returned.
C15_AsStated ==
    [][\A id \in InformerIds :
          (Handles(id) /\ last'.calls # <<>>) =>
              /\ worker[id[1]].state # "done"
              /\ pc # "exited"]_vars

-----------------------------------------------------------------------------
(* C16 *)

\* the paths at which the handler of an event calls Write or Remove
ActsOn(ev) ==
    IF Selected(cfg, ev.obj)
    THEN {MirrorPath(ev.obj, n, cfg) : n \in JSONEntries(ev.obj)}
    ELSE {}

\* the informer has an event to handle: its goroutine is in, or about to
\* enter, the handler of the event
Pending(id) == informer[id].state = "running" /\ informer[id].queue # <<>>

\* C16 as stated: when the handlers of two informers are at work on the same
\* path at the same time, the two resources are of different namespaces.
C16_AsStated ==
    \A id1, id2 \in InformerIds :
        (/\ id1 # id2
         /\ Pending(id1)
         /\ Pending(id2)
         /\ ActsOn(Head(informer[id1].queue)) \cap ActsOn(Head(informer[id2].queue)) # {})
        => Head(informer[id1].queue).rid[2] # Head(informer[id2].queue).rid[2]

-----------------------------------------------------------------------------
(* C17 *)

\* C17: matchesLabel(labels, key, value) is true iff key is empty, or value
\* is empty and labels carries key, or labels carries key with exactly value;
\* the result is the one for the label key alone, whatever the other labels.
C17_MatchesLabelExact ==
    last.type = "matchesLabel" =>
        LET labels == last.in[1]
            key == last.in[2]
            value == last.in[3]
        IN  /\ last.out = (\/ key = ""
                           \/ value = "" /\ \E p \in labels : p[1] = key
                           \/ <<key, value>> \in labels)
            /\ last.out = (\/ key = ""
                           \/ \E p \in labels : p[1] = key /\ (value = "" \/ p[2] = value))
            /\ \A other \in LabelInputs :
                  {p \in other : p[1] = key} = {p \in labels : p[1] = key}
                  => matchesLabel(other, key, value) = last.out

\* the selector app=my is refused for a resource labelled app=myapp that
\* carries the value my under another key
C17_Witness ==
    /\ last.type = "matchesLabel"
    /\ last.in[2] = "app"
    /\ last.in[3] = "my"
    /\ last.in[1] = {<<"app", "myapp">>, <<"ap", "my">>}
    /\ last.out = FALSE

-----------------------------------------------------------------------------
(* C18 *)

\* C18: IsJSON(name) is true iff name ends with .json, in lower case; the
\* Add and Update handlers and the pass call Write for no entry whose name
\* does not end so (and, unless a Write fails, for every entry whose name
\* does), so that no file with another name comes to exist.
C18_OnlyJSONNamesWritten ==
    /\ last.type = "IsJSON" => last.out = EndsInJSON(last.in)
    /\ last.type \in {"Add", "Update", "Sync"} =>
          /\ {last.calls[i].fileName : i \in WritesOf(last.calls)} \subseteq JSONEntries(last.obj)
          /\ ~Failed(last.calls, "Write") =>
                {last.calls[i].fileName : i \in WritesOf(last.calls)} = JSONEntries(last.obj)
          /\ \A p \in fs.files : EndsInJSON(p[1][2])

\* an Add of a resource with the entries a.json and a.JSON has written
\* a.json alone
C18_Witness ==
    /\ last.type = "Add"
    /\ Keys(last.obj.data) = {A_JSON, J_UPPER}
    /\ CountCalls(last.calls, "Write") = 1
    /\ ~Failed(last.calls, "Write")
    /\ \E p \in fs.files : p[1][2] = A_JSON /\ p[2] = ONE

-----------------------------------------------------------------------------
(* C19 *)

\* the target folder of a resource with the given annotations
TargetFolder(annotations) ==
    IF cfg.FolderAnnotation = "" \/ ~Has(annotations, cfg.FolderAnnotation)
    THEN cfg.Folder
    ELSE Join(cfg.Folder, Get(annotations, cfg.FolderAnnotation))

\* C19: the target folder is the base folder when the annotation key is
\* empty or the resource does not carry the annotation, and join(base
\* folder, annotation value) otherwise (base/sub for the value sub); the
\* pass and the Add, Update and Delete handlers of both kinds make every
\* Write and Remove in that folder.
C19_FolderResolution ==
    /\ last.type = "ResolveFolder" =>
          /\ last.out = TargetFolder(last.in)
          /\ cfg.FolderAnnotation = "" => last.out = <<"base">>
          /\ ~Has(last.in, cfg.FolderAnnotation) => last.out = <<"base">>
          /\ (cfg.FolderAnnotation # "" /\ <<cfg.FolderAnnotation, <<"sub">>>> \in last.in)
                => last.out = <<"base", "sub">>
    /\ last.type \in Events \cup {"Sync"} =>
          \A i \in 1..Len(last.calls) :
              last.calls[i].op \in {"Write", "Remove"} =>
                  last.calls[i].folder = TargetFolder(last.obj.annotations)

\* a Delete of a secret annotated with the subdirectory sub has called
\* Remove in base/sub
C19_Witness ==
    /\ last.type = "Delete"
    /\ last.rid[1] = RESOURCE_SECRET
    /\ cfg.FolderAnnotation # ""
    /\ <<cfg.FolderAnnotation, <<"sub">>>> \in last.obj.annotations
    /\ \E i \in 1..Len(last.calls) :
          last.calls[i].op = "Remove" /\ last.calls[i].folder = <<"base", "sub">>

-----------------------------------------------------------------------------
(* C20 *)

\* C20 as stated: a Write into a folder that does not exist, whatever the
\* number of missing levels, succeeds and leaves the file with the content.
C20_AsStated ==
    (last.type = "Write" /\ last.in[1] \notin last.in[4].dirs) =>
        /\ ~last.out
        /\ <<<<last.in[1], last.in[2]>>, last.in[3]>> \in fs.files

-----------------------------------------------------------------------------
(* C21 *)

\* C21 as stated: Remove of a file that does not exist returns no error, and
\* a Delete event of a resource none of whose files exists makes no call that
\* returns an error.
C21_AsStated ==
    /\ (last.type = "Remove" /\ ~Has(last.in[3].files, <<last.in[1], last.in[2]>>)) =>
          ~last.out
    /\ (last.type = "Delete" /\ \A n \in JSONEntries(last.obj) : ~Has(fs.files, MirrorPath(last.obj, n, cfg))) =>
          ~Failed(last.calls, "Remove")

-----------------------------------------------------------------------------
(* C22 *)

\* C22 as stated: a second Write of the same folder, name and content leaves
\* the filesystem as the first Write left it and returns no error.
C22_AsStated ==
    last.type = "WriteAgain" =>
        /\ fs = last.in[4]
        /\ ~last.out


-----------------------------------------------------------------------------
(* C23, C24, C25: one call of Notify *)

NotifyCalled == last.type \in {"Notify", "NewNotify"}

\* the configuration the notifier was built from
ConfiguredMethod == IF last.type = "Notify" THEN last.in[1].Method ELSE last.in[1].REQ_METHOD

ConfiguredURL == IF last.type = "Notify" THEN last.in[1].URL ELSE last.in[1].REQ_URL

\* the requests of the call, and the request Notify has built
Sent == last.out.sent

\* C23: the request Notify sends is a POST when the configured method is
\* exactly POST and a GET for every other value, the empty one included.
C23_PostOnlyIfConfiguredPOST ==
    (NotifyCalled /\ Sent # <<>>) =>
        Sent[1].Method = (IF ConfiguredMethod = "POST" THEN "POST" ELSE "GET")

\* a notifier configured with method post has sent a GET, one configured
\* with POST a POST
C23_Witness ==
    /\ last.type = "Notify"
    /\ ConfiguredMethod = "post"
    /\ Sent # <<>>
    /\ Sent[1].Method = "GET"

\* the user name and the password the notifier was configured with: no
\* credentials at all is the same as two empty strings
ConfiguredCredentials ==
    IF last.type = "NewNotify" THEN <<last.in[1].REQ_USERNAME, last.in[1].REQ_PASSWORD>>
    ELSE IF last.in[1].BasicAuth = <<>> THEN <<"", "">>
    ELSE <<last.in[1].BasicAuth[1].Username, last.in[1].BasicAuth[1].Password>>

\* C24 as stated: the request carries an Authorization header iff both a
\* user name and a password are configured.
C24_AsStated ==
    (NotifyCalled /\ Sent # <<>>) =>
        (Sent[1].Authorization # <<>>
            <=> (ConfiguredCredentials[1] # "" /\ ConfiguredCredentials[2] # ""))

\* the answers the client follows with a further request
IsRedirect(a) == a.location /\ a.status \in {301, 302, 303, 307, 308}

RECURSIVE LeadingRedirects(_)
LeadingRedirects(answers) ==
    IF answers # <<>> /\ IsRedirect(Head(answers))
    THEN 1 + LeadingRedirects(Tail(answers))
    ELSE 0

\* the request can be built and the client can send it
Sendable == ConfiguredURL = "http://grafana:3000/reload"

\* the answer to the last request, if there is one
Final(answers) == answers[LeadingRedirects(answers) + 1]

Answered(answers) == Len(answers) > LeadingRedirects(answers)

ErrorExpected(answers) ==
    \/ ~Sendable
    \/ ~Answered(answers)
    \/ Final(answers).status < 200
    \/ Final(answers).status > 299

\* C25 as stated: a call issues at most one request, and returns an error
\* iff the request cannot be built, the transport fails or the status of the
\* response is outside [200,300).
C25_AsStated ==
    NotifyCalled =>
        /\ Len(Sent) <= 1
        /\ last.out.err <=> ErrorExpected(last.in[2])

\* C25, amended: a call sends the request it builds once, and one further
\* request per redirect the client follows; nothing is sent twice for the
\* same answer.  It returns an error iff the request cannot be built or
\* sent, a request gets no answer, or the status of the last answer is
\* outside [200,300).
C25_OneRequestPerAnswer ==
    NotifyCalled =>
        /\ Len(Sent) = (IF Sendable THEN LeadingRedirects(last.in[2]) + 1 ELSE 0)
        /\ last.out.err <=> ErrorExpected(last.in[2])

\* the endpoint has answered 500 to the one request and Notify has returned
\* an error
C25_Witness ==
    /\ last.type = "Notify"
    /\ Len(last.in[2]) = 1
    /\ last.in[2][1].status = 500
    /\ Len(Sent) = 1
    /\ last.out.err

\* a redirect has been followed and the second answer, 299, is no error
C25_WitnessRedirect ==
    /\ last.type = "Notify"
    /\ Len(Sent) = 2
    /\ Len(last.in[2]) = 2
    /\ last.in[2][2].status = 299
    /\ ~last.out.err

-----------------------------------------------------------------------------
(* C26 *)

\* the sidecar has no URL to notify: every Notify returns an error
NotifyFails == cfg.ReqURL = ""

NotifyFailedIn(calls) == \E i \in 1..Len(calls) : calls[i].op = "Notify" /\ calls[i].err

\* the files after the Writes among the calls that returned no error, in
\* their order
RECURSIVE AfterWrites(_, _)
AfterWrites(files, calls) ==
    IF calls = <<>> THEN files
    ELSE LET c == Head(calls)
             path == <<c.folder, c.fileName>>
         IN  AfterWrites(IF c.op = "Write" /\ ~c.err
                         THEN {p \in files : p[1] # path} \cup {<<path, c.data>>}
                         ELSE files,
                         Tail(calls))

C26_WitnessList ==
    /\ cfg.Method = METHOD_LIST
    /\ pc = "exited"
    /\ NotifyFailedIn(last.calls)
    /\ \E p \in cluster : Mirrored(p[2], A_JSON)

-----------------------------------------------------------------------------
(* C27 *)

\* C27 as stated: a Write that fails during the reconciliation pass, for a
\* ConfigMap or for a Secret, ends the process: it is the last call of the
\* pass, so that no further entry is written and Notify is not called.
C27_AsStated ==
    (last.type \in {"Sync", "RunOnce"} /\ Failed(last.calls, "Write")) =>
        /\ pc = "fatal"
        /\ last.calls[Len(last.calls)].op = "Write"
        /\ last.calls[Len(last.calls)].err
        /\ \A i \in 1..(Len(last.calls) - 1) : ~last.calls[i].err

-----------------------------------------------------------------------------
(* C28 *)

\* C28: a Write or Remove that fails does not end the handler, the informer
\* or the process: the handler of an event of a selected resource makes its
\* call for every .json entry, also for the entries after a failed call and
\* also when a call of an earlier event failed; handling an event leaves the
\* informer running and Run waiting.
C28_HandlerGoesOnAfterFailure ==
    /\ []((/\ last.type \in Events /\ Selected(cfg, last.obj)
           /\ writeFailed \/ removeFailed) =>
             OnePerEntry(last.calls,
                         IF last.type = "Add" THEN Len(last.calls) - 1 ELSE Len(last.calls),
                         IF last.type = "Delete" THEN "Remove" ELSE "Write",
                         last.rid, last.obj))
    /\ [][\A id \in InformerIds :
             Handles(id) => /\ informer'[id].state = "running"
                            /\ pc' = "waiting"]_vars

\* the first Write of an Add event has failed and the second entry has been
\* written all the same
C28_Witness ==
    /\ last.type = "Add"
    /\ Len(last.calls) = 3
    /\ last.calls[1].op = "Write" /\ last.calls[1].err
    /\ last.calls[2].op = "Write" /\ ~last.calls[2].err
    /\ Has(fs.files, <<last.calls[2].folder, last.calls[2].fileName>>)

\* a call of an earlier event has failed and the Update handled last has
\* written its entry
C28_WitnessLater ==
    /\ writeFailed
    /\ last.type = "Update"
    /\ Selected(cfg, last.obj)
    /\ ~Failed(last.calls, "Write")
    /\ Mirrored(last.obj, A_JSON)

-----------------------------------------------------------------------------
(* C29 *)

\* call i of the calls is a list call that failed
ListFailedAt(calls, i) == calls[i].op = "List" /\ calls[i].err

\* C29: a list call of a kind that fails ends the reconciliation pass: the
\* kind is not listed again, no entry of a resource of the kind is written
\* in the pass, and after the failed call the pass makes no call (RunOnce
\* then makes its one Notify).
C29_ListFailureAbortsPass ==
    last.type \in {"Sync", "RunOnce"} =>
        \A i \in 1..Len(last.calls) :
            ListFailedAt(last.calls, i) =>
                /\ \A j \in 1..Len(last.calls) :
                      /\ (last.calls[j].op = "List" /\ last.calls[j].rid[1] = last.calls[i].rid[1]) => j = i
                      /\ last.calls[j].op = "Write" => last.calls[j].rid[1] # last.calls[i].rid[1]
                      /\ j > i => (last.type = "RunOnce" /\ j = Len(last.calls) /\ last.calls[j].op = "Notify")

\* the list call for the ConfigMaps has failed with a selected ConfigMap in
\* the cluster: nothing is written and the Secrets are not listed
C29_Witness ==
    /\ last.type = "RunOnce"
    /\ Range(cfg.Resource) = Kinds
    /\ ListFailedAt(last.calls, 1)
    /\ last.calls[1].rid[1] = RESOURCE_CONFIGMAP
    /\ Len(last.calls) = 2
    /\ \E p \in cluster : /\ p[1][1] = RESOURCE_CONFIGMAP
                          /\ Selected(cfg, p[2])
                          /\ JSONEntries(p[2]) # {}
    /\ \E p \in cluster : /\ p[1][1] = RESOURCE_SECRET
                          /\ Selected(cfg, p[2])
                          /\ JSONEntries(p[2]) # {}
    /\ fs.files = {}

-----------------------------------------------------------------------------
(* C30 *)

\* the operating system has refused the call, which was possible as far as
\* the folders and files go
Refused(call) ==
    /\ call.err
    /\ \/ call.op = "Write" /\ call.folder \in fs.dirs
       \/ call.op = "Remove" /\ Has(fs.files, <<call.folder, call.fileName>>)

\* C30 as stated: once the Add or an Update of a selected resource has been
\* handled, with no call of the handler refused by the operating system,
\* every .json entry of the event's object, at a path no other resource maps
\* to, is a file holding the entry's content; once its Delete has been
\* handled, no file is at the path.
C30_AsStated ==
    (/\ WatchMode /\ last.type \in Events /\ Selected(cfg, last.obj)
     /\ \A i \in 1..Len(last.calls) : ~Refused(last.calls[i])) =>
        \A n \in JSONEntries(last.obj) :
            Sole(MirrorPath(last.obj, n, cfg), last.rid) =>
                IF last.type = "Delete"
                THEN ~Has(fs.files, MirrorPath(last.obj, n, cfg))
                ELSE Mirrored(last.obj, n)

-----------------------------------------------------------------------------
(* C31 *)

\* the folder the annotations of the event's object name
EventFolder == cfg.Folder \o Subdir(last.obj, cfg)

\* a Write or Remove was made earlier for the resource of the last event in
\* another folder than the one its object names now
FolderChanged == \E t \in touched : t[2] = last.rid /\ t[1][1] # EventFolder

\* C31: an Update event of a resource that satisfies the selector, whose
\* annotation names another folder than the one the resource's entries were
\* written to before, makes one Write per .json entry in the folder its own
\* object names, and no Write in any other folder.
C31_UpdateResolvesFolderAnew ==
    (WatchMode /\ last.type = "Update" /\ Selected(cfg, last.obj) /\ FolderChanged) =>
        /\ \A n \in JSONEntries(last.obj) :
              \E i \in 1..Len(last.calls) :
                  /\ CallFor(last.calls[i], "Write", last.rid, last.obj, n)
                  /\ ~last.calls[i].err => Mirrored(last.obj, n)
        /\ \A i \in 1..Len(last.calls) :
              last.calls[i].op = "Write" => last.calls[i].folder = EventFolder

\* the entry a.json, written to the base folder before, has been written to
\* base/sub by the Update that brought the annotation
C31_Witness ==
    /\ WatchMode
    /\ last.type = "Update"
    /\ Selected(cfg, last.obj)
    /\ EventFolder = <<"base", "sub">>
    /\ <<<<<<"base">>, A_JSON>>, last.rid>> \in touched
    /\ Mirrored(last.obj, A_JSON)

\* the annotation has been taken away again: the Update writes to the base
\* folder
C31_WitnessBack ==
    /\ WatchMode
    /\ last.type = "Update"
    /\ Selected(cfg, last.obj)
    /\ EventFolder = <<"base">>
    /\ <<<<<<"base", "sub">>, A_JSON>>, last.rid>> \in touched
    /\ Mirrored(last.obj, A_JSON)

-----------------------------------------------------------------------------
(* C32 *)

\* the folder is the base folder or lies below it
Below(folder) ==
    /\ Len(folder) >= Len(cfg.Folder)
    /\ [i \in 1..Len(cfg.Folder) |-> folder[i]] = cfg.Folder

\* the value of the folder annotation of the object of the last operation
FolderValue == Subdir(last.obj, cfg)

\* the calls of Write and Remove of the last operation
FileCalls == {i \in 1..Len(last.calls) : last.calls[i].op \in {"Write", "Remove"}}

\* the value begins with a parent-directory segment and holds ordinary
\* segments only after it
LeadsUp(value) ==
    /\ Len(value) >= 1
    /\ value[1] = ".."
    /\ \A i \in 2..Len(value) : value[i] \notin {"..", ".", ""}

\* the rest of a value that leads up names the base folder again
LeadsBack(value) == Below([i \in 1..(Len(value) - 1) |-> value[i + 1]])

\* C32 as stated: when the value of the folder annotation contains a
\* parent-directory segment, every Write and Remove of a handler or of the
\* pass is made in a folder outside the base folder.
C32_AsStated ==
    (last.type \in Events \cup {"Sync"} /\ cfg.FolderAnnotation # ""
        /\ \E i \in 1..Len(FolderValue) : FolderValue[i] = "..") =>
        \A i \in FileCalls : ~Below(last.calls[i].folder)

\* C32, amended: when the value begins with a parent-directory segment
\* followed by ordinary segments, every Write and Remove is made in the
\* folder these segments name from the parent of the base folder; unless they
\* name the base folder again that folder is outside the base folder, and the
\* file a successful Write leaves is there.
C32_ParentSegmentLeavesBase ==
    (last.type \in Events \cup {"Sync"} /\ cfg.FolderAnnotation # "" /\ LeadsUp(FolderValue)) =>
        \A i \in FileCalls :
            /\ last.calls[i].folder = [j \in 1..(Len(FolderValue) - 1) |-> FolderValue[j + 1]]
            /\ ~LeadsBack(FolderValue) => ~Below(last.calls[i].folder)
            /\ (last.calls[i].op = "Write" /\ ~last.calls[i].err) =>
                  <<<<last.calls[i].folder, last.calls[i].fileName>>, last.calls[i].data>> \in fs.files

\* a resource annotated ../etc has been deleted and the file etc/a.json,
\* next to the base folder, is gone
C32_Witness ==
    /\ last.type = "Delete"
    /\ cfg.FolderAnnotation # ""
    /\ FolderValue = <<"..", "etc">>
    /\ \E i \in FileCalls :
          /\ last.calls[i].op = "Remove"
          /\ last.calls[i].folder = <<"etc">>
          /\ ~last.calls[i].err
    /\ fs.files = {}

\* a resource annotated ../etc has been added and etc/a.json written
C32_WitnessWrite ==
    /\ last.type = "Add"
    /\ cfg.FolderAnnotation # ""
    /\ FolderValue = <<"..", "etc">>
    /\ \E p \in fs.files : p[1][1] = <<"etc">> /\ p[2] = ONE

-----------------------------------------------------------------------------
(* C33 *)

\* The last event handled is the Delete of a resource that satisfies the
\* selector, and the live resource p, watched and satisfying the selector,
\* maps its entry n to the path the deleted resource mapped its entry n to
SharedAfterDelete(p, n) ==
    /\ WatchMode
    /\ last.type = "Delete"
    /\ Selected(cfg, last.obj)
    /\ p \in cluster
    /\ p[1] # last.rid
    /\ Watched(cfg, p[1])
    /\ Selected(cfg, p[2])
    /\ n \in JSONEntries(last.obj) \cap JSONEntries(p[2])
    /\ MirrorPath(p[2], n, cfg) = MirrorPath(last.obj, n, cfg)

Survivors == cluster \X {A_JSON, B_JSON}

\* the Delete handler has left no file at the shared path, unless the
\* operating system refused a deletion
SharedFileRemoved ==
    \A s \in Survivors :
        (SharedAfterDelete(s[1], s[2]) /\ \A i \in 1..Len(last.calls) : ~Refused(last.calls[i])) =>
            ~Has(fs.files, MirrorPath(last.obj, s[2], cfg))

\* C33 as stated: the Delete event of one of two live resources that map an
\* entry to one path removes the file, and the file is not there again
\* before an Add or Update event of the surviving resource is handled.
C33_AsStated ==
    /\ []SharedFileRemoved
    /\ [][\A s \in Survivors :
            (/\ SharedAfterDelete(s[1], s[2])
             /\ ~Has(fs.files, MirrorPath(last.obj, s[2], cfg))
             /\ Has(fs'.files, MirrorPath(last.obj, s[2], cfg))) =>
                /\ last'.type \in {"Add", "Update"}
                /\ last'.rid = s[1][1]]_vars

\* C33, amended: the same, the file is not there again before an Add or
\* Update event of a resource that maps an entry to the path is handled and
\* writes it: the surviving resource, or the deleted one created anew.
C33_SharedFileGoneUntilRewritten ==
    /\ []SharedFileRemoved
    /\ [][\A s \in Survivors :
            (/\ SharedAfterDelete(s[1], s[2])
             /\ ~Has(fs.files, MirrorPath(last.obj, s[2], cfg))
             /\ Has(fs'.files, MirrorPath(last.obj, s[2], cfg))) =>
                /\ last'.type \in {"Add", "Update"}
                /\ \E i \in 1..Len(last'.calls) :
                      /\ last'.calls[i].op = "Write"
                      /\ last'.calls[i].rid = last'.rid
                      /\ <<last'.calls[i].folder, last'.calls[i].fileName>> =
                             MirrorPath(last.obj, s[2], cfg)]_vars

\* the file a.json both resources were written to is gone after the Delete
\* of one of them, with the other one live and every informer idle
C33_Witness ==
    /\ \E p \in cluster : SharedAfterDelete(p, A_JSON)
    /\ <<<<<<"base">>, A_JSON>>, last.rid>> \in touched
    /\ ~removeFailed
    /\ ~writeFailed
    /\ ~Has(fs.files, <<<<"base">>, A_JSON>>)
    /\ \A id \in InformerIds : informer[id].queue = <<>>

-----------------------------------------------------------------------------
(* C34 *)

\* C34 as stated: the delete handler returns without a runtime failure for
\* every argument the informer can call it with, a ConfigMap or Secret
\* object as well as the wrapper of a deletion whose final state is unknown.
C34_AsStated ==
    last.type = "OnDelete" => ~last.out.panic

-----------------------------------------------------------------------------
(* C35 *)

\* RESOURCE is none of configmap, secret and both
NoKind == Range(cfg.Resource) = {}

\* C35: with no resource kind configured, in the modes watch and sleep, no
\* worker and no informer is ever started, the completion counter is 0 when
\* Run waits, and Run returns whether or not the context is cancelled.
C35_NoKindReturnsAtOnce ==
    /\ []((WatchMode /\ NoKind) =>
             /\ ~WorkersStarted
             /\ pc = "waiting" => wg = 0)
    /\ ((WatchMode /\ NoKind /\ pc = "waiting") ~> (pc = "exited"))

\* in mode sleep with no kind Run has returned and the context is not
\* cancelled
C35_Witness ==
    /\ cfg.Method = METHOD_SLEEP
    /\ NoKind
    /\ pc = "exited"
    /\ ~ctxDone
    /\ last.type = "Sync"

-----------------------------------------------------------------------------
(* C36 *)

\* the resources that exist, satisfy the selector and are covered by the
\* subscription of informer id
PresentFor(id) == {p \in cluster : Subscribed(id, p[1]) /\ Selected(cfg, p[2])}

\* C36: in watch mode the pass calls Notify not at all, and no notification
\* is made before an event is handled; an informer that starts running
\* queues exactly one Add event, carrying the object, per selected resource
\* of its subscription that exists then; the handling of such an event makes
\* one Write per .json entry of the object, as the pass did, and then one
\* call of Notify.
C36_StartupResourcesReplayedAsAdds ==
    /\ []((WatchMode /\ last.type = "Sync") =>
             /\ CountCalls(last.calls, "Notify") = 0
             /\ notifyCount = 0)
    /\ [][\A id \in InformerIds :
            (informer[id].state = "idle" /\ informer'[id].state = "running") =>
                /\ Range(informer'[id].queue) = {Event("Add", p[1], p[2]) : p \in PresentFor(id)}
                /\ Len(informer'[id].queue) = Cardinality(PresentFor(id))]_vars
    /\ [][\A id \in InformerIds :
            (/\ Pending(id)
             /\ informer'[id].state = "running"
             /\ informer'[id].queue = Tail(informer[id].queue)
             /\ Head(informer[id].queue).type = "Add"
             /\ Selected(cfg, Head(informer[id].queue).obj)) =>
                /\ last'.type = "Add"
                /\ last'.rid = Head(informer[id].queue).rid
                /\ OnePerEntry(last.calls, Len(last.calls) - 1, "Write", last.rid, last.obj)'
                /\ last'.calls[Len(last'.calls)].op = "Notify"
                /\ notifyCount' = notifyCount + 1]_vars

\* the pass has written a.json of a resource without a notification, and the
\* informer, started since, holds the Add event of that resource
C36_Witness ==
    /\ WatchMode
    /\ last.type = "Sync"
    /\ notifyCount = 0
    /\ \E id \in InformerIds :
          /\ Pending(id)
          /\ Head(informer[id].queue).type = "Add"
          /\ \E i \in 1..Len(last.calls) :
                /\ last.calls[i].op = "Write"
                /\ ~last.calls[i].err
                /\ last.calls[i].rid = Head(informer[id].queue).rid
                /\ Mirrored(Head(informer[id].queue).obj, last.calls[i].fileName)

\* the Add event of the only resource ever created has been handled: its
\* entry is on disk and one notification has been made
C36_WitnessHandled ==
    /\ WatchMode
    /\ last.type = "Add"
    /\ changes = 1
    /\ notifyCount = 1
    /\ \E n \in JSONEntries(last.obj) : Mirrored(last.obj, n)

-----------------------------------------------------------------------------
(* C37 *)

\* C37: an Add event of a resource that satisfies the selector and has no
\* entry whose name ends in .json (its data mapping may be empty) makes
\* exactly one call, of Notify, and calls neither Write nor Remove; the
\* filesystem is as it was.
C37_AddWithoutEntriesNotifiesOnce ==
    (last.type = "Add" /\ Selected(cfg, last.obj) /\ JSONEntries(last.obj) = {}) =>
        /\ Len(last.calls) = 1
        /\ last.calls[1].op = "Notify"
        /\ notifyCount = 1
        /\ touched = {}
        /\ fs \in FilesystemInputs

\* the Add event of a resource with an empty data mapping has been handled
C37_Witness ==
    /\ last.type = "Add"
    /\ Selected(cfg, last.obj)
    /\ last.obj.data = {}
    /\ notifyCount = 1

\* the Add event of a resource with the only entry c.yaml has been handled
C37_WitnessYAML ==
    /\ last.type = "Add"
    /\ Selected(cfg, last.obj)
    /\ Keys(last.obj.data) = {C_YAML}
    /\ notifyCount = 1

-----------------------------------------------------------------------------
(* C38 *)

\* the calls hold a list call that failed
ListFailed(calls) == \E i \in 1..Len(calls) : calls[i].op = "List" /\ calls[i].err

\* C38: in list mode, when a list call of the pass fails, RunOnce calls
\* Notify exactly once, as its last call and right after the failed list
\* call, and returns: the process ends without a fatal error.
C38_AbortedPassStillNotifies ==
    (cfg.Method = METHOD_LIST /\ last.type = "RunOnce" /\ ListFailed(last.calls)) =>
        /\ CountCalls(last.calls, "Notify") = 1
        /\ notifyCount = 1
        /\ last.calls[Len(last.calls)].op = "Notify"
        /\ last.calls[Len(last.calls) - 1].op = "List"
        /\ last.calls[Len(last.calls) - 1].err
        /\ pc = "exited"

\* the list call of the Secrets has failed after the ConfigMaps were
\* written, and Notify has been called
C38_Witness ==
    /\ cfg.Method = METHOD_LIST
    /\ last.type = "RunOnce"
    /\ Len(last.calls) >= 4
    /\ last.calls[1].op = "List" /\ ~last.calls[1].err
    /\ last.calls[2].op = "Write"
    /\ last.calls[Len(last.calls) - 1] = ListCall(RESOURCE_SECRET, TRUE)
    /\ last.calls[Len(last.calls)].op = "Notify"
    /\ notifyCount = 1

\* the first list call has failed in a cluster that holds a selected
\* resource: nothing is written, and Notify has been called
C38_WitnessFirst ==
    /\ cfg.Method = METHOD_LIST
    /\ last.type = "RunOnce"
    /\ Len(last.calls) = 2
    /\ last.calls[1].op = "List" /\ last.calls[1].err
    /\ last.calls[2].op = "Notify"
    /\ \E p \in cluster : Watched(cfg, p[1]) /\ Selected(cfg, p[2])
    /\ fs.files = {}

-----------------------------------------------------------------------------
(* C39 *)

\* the paths of the .json entries of an object
EntryPaths(obj) == {MirrorPath(obj, n, cfg) : n \in JSONEntries(obj)}

\* the step leaves every file that is not at one of the paths as it is, and
\* adds no file elsewhere
OnlyAt(paths) ==
    /\ \A p \in fs.files : p[1] \notin paths => p \in fs'.files
    /\ \A p \in fs'.files : p[1] \notin paths => p \in fs.files

\* C39: the handling of an Update event changes the files at the paths
\* resolved from the annotations of the new object only and removes no file:
\* a file written under another folder before stays as it is.  The handling
\* of a Delete event removes files at the paths resolved from the
\* annotations of the deleted object only, and adds none.
C39_OldFolderLeftBehind ==
    [][\A id \in InformerIds :
        (WatchMode /\ Handles(id)) =>
            LET ev == Head(informer[id].queue)
            IN  /\ ev.type = "Update" =>
                      /\ OnlyAt(EntryPaths(ev.obj))
                      /\ Keys(fs.files) \subseteq Keys(fs'.files)
                /\ ev.type = "Delete" =>
                      /\ OnlyAt(EntryPaths(ev.obj))
                      /\ fs'.files \subseteq fs.files]_vars

\* the resource, written to the base folder at startup, then annotated with
\* sub and written to base/sub, has been deleted: base/sub/a.json is removed
\* and base/a.json, which no other resource was written to, is still there
C39_Witness ==
    /\ WatchMode
    /\ last.type = "Delete"
    /\ Selected(cfg, last.obj)
    /\ EventFolder = <<"base", "sub">>
    /\ ~Has(cluster, last.rid)
    /\ \E i \in 1..Len(last.calls) :
          /\ last.calls[i].op = "Remove"
          /\ last.calls[i].folder = <<"base", "sub">>
          /\ ~last.calls[i].err
    /\ Has(fs.files, <<<<"base">>, A_JSON>>)
    /\ Sole(<<<<"base">>, A_JSON>>, last.rid)

-----------------------------------------------------------------------------
(* C40 *)

\* C40: a Remove in a folder that is missing while its parent exists creates
\* the folder, deletes nothing and returns an error; and after a Delete event
\* with a .json entry the target folder exists whenever its parent does,
\* although no file of the resource was ever written.
C40_RemoveCreatesFolder ==
    /\ (/\ last.type = "Remove"
        /\ last.in[1] \notin last.in[3].dirs
        /\ [i \in 1..(Len(last.in[1]) - 1) |-> last.in[1][i]] \in last.in[3].dirs) =>
          /\ fs.dirs = last.in[3].dirs \cup {last.in[1]}
          /\ fs.dirs # last.in[3].dirs
          /\ fs.files = last.in[3].files
          /\ last.out
    /\ (last.type = "Delete" /\ Selected(cfg, last.obj)) =>
          \A i \in 1..Len(last.calls) :
              (/\ last.calls[i].op = "Remove"
               /\ last.calls[i].folder # <<>>
               /\ [j \in 1..(Len(last.calls[i].folder) - 1) |-> last.calls[i].folder[j]] \in fs.dirs) =>
                  last.calls[i].folder \in fs.dirs

\* Remove has been called for a.json in the missing folder base, and the
\* folder exists now
C40_Witness ==
    /\ last.type = "Remove"
    /\ last.in[1] = <<"base">>
    /\ last.in[3] = [files |-> {}, dirs |-> {<<>>}]
    /\ fs = [files |-> {}, dirs |-> {<<>>, <<"base">>}]
    /\ last.out

\* a Delete event of a resource annotated ../etc, none of whose entries was
\* ever written, has created the folder etc
C40_WitnessDelete ==
    /\ last.type = "Delete"
    /\ JSONEntries(last.obj) # {}
    /\ fs = [files |-> {}, dirs |-> {<<>>, <<"etc">>}]
    /\ removeFailed

====
